---- MODULE Spec2Model ----
(***************************************************************************)
(* A model of the AWS resource scanner and resource-map components of      *)
(* list-and-map-aws-resources.                                             *)
(*                                                                         *)
(* Three variants of the graph builder live in the repository:            *)
(*   "Flow"                  src/app/components/ResourceMap.tsx            *)
(*   "FlowWithDownload"      src/unnamed/part_004, lines 1-552             *)
(*   "FlowBasic"             src/unnamed/part_004, lines 553-874           *)
(* Strings (ids, names, edge ids) are TLA+ strings, so template literals,  *)
(* startsWith / endsWith / includes and the trailing-dot regex are         *)
(* computed character by character.  An optional field of a JavaScript     *)
(* object is a field that may be missing from the record's DOMAIN.         *)
(***************************************************************************)
EXTENDS Integers, Sequences, FiniteSets, TLC

VARIABLES
    variant,         \* which component is mounted
    resources,       \* the `resources` prop (Flow*) / state (Home)
    layoutSettings,  \* Flow's layoutSettings state
    selectedEdge,    \* the selectedEdge state: <<>> for null, <<id>> for an edge id
    nodes,           \* the nodes handed to <ReactFlow nodes=...>
    edges,           \* the edges built so far / handed to <ReactFlow edges=...>
    usedKeys,        \* usedKeys (Flow) or addedEdges (FlowWithDownload, FlowBasic)
    emitted,         \* the edges pushed by the latest createEdges iteration step
    idx,             \* number of resources the createEdges loop has processed
    pc,              \* position of the build, of the component or of the page
    page,            \* which page runs scanResources: "Home" or "SimpleHome"
    loading,         \* the loading state
    error,           \* the error state is not null
    discoveredResources, \* the array scanResources pushes to
    step,            \* the statement of scanResources the scan stands at
    inflight,        \* the DescribeServices calls started and not yet settled
    failures,        \* number of API calls that have thrown
    log,             \* the calls made, succeeded and failed in the running scan
    scans,           \* number of scans started
    chain,           \* the export ref chain: wrapper, loader, ResourceMap, Flow
    store,           \* the reports collection and the latest response of POST /api/report
    gif              \* the night-sky scene's GIF recorder

builderVars == <<variant, layoutSettings, selectedEdge, nodes, edges, usedKeys, emitted, idx>>

scanVars == <<page, loading, error, discoveredResources, step, inflight, failures, log, scans>>

widgetVars == <<chain, store, gif>>

vars == <<variant, resources, layoutSettings, selectedEdge, nodes, edges,
          usedKeys, emitted, idx, pc, scanVars, widgetVars>>

-----------------------------------------------------------------------------
(* Bounds of the model.                                                    *)

MaxNodeResources == 3

MaxEdgeResources == 3
\* Largest service group of the layout inputs.
MaxGroupSize == 7
\* Regions scanned, of the ten of the region list.
MaxRegions == 2
\* Items an API call lists (clusters, services, load balancers, certificates, zones).
MaxItems == 2
\* API calls that throw, over all scans.
MaxFailures == 2
\* Scans started.
MaxScans == 2
\* resources in one list of the selection checks
MaxSelectResources == 2
\* captureFrame calls waiting for html2canvas at one time
MaxPending == 3
\* recordings started in one run
MaxRecordings == 2
\* reports stored in one run
MaxReports == 2
\* export calls made through the wrapper's handle in one run
MaxExportCalls == 3
\* resources in one list of the same-region checks
MaxRegionResources == 3

-----------------------------------------------------------------------------
(* JavaScript string helpers.                                              *)

StartsWith(s, p) == Len(p) <= Len(s) /\ SubSeq(s, 1, Len(p)) = p

EndsWith(s, p) == Len(p) <= Len(s) /\ SubSeq(s, Len(s) - Len(p) + 1, Len(s)) = p

Includes(s, p) == \E i \in 1..(Len(s) - Len(p) + 1) : SubSeq(s, i, i + Len(p) - 1) = p

\* s.replace(/\.$/, '')
StripTrailingDot(s) ==
    IF EndsWith(s, ".") THEN SubSeq(s, 1, Len(s) - 1) ELSE s

\* Math.ceil(Math.sqrt(n)) for a natural n
CeilSqrt(n) == CHOOSE k \in 0..n : k * k >= n /\ (k = 0 \/ (k - 1) * (k - 1) < n)

\* The distinct values of a sequence in order of first occurrence: the key
\* order of Object.entries / Object.keys of an object filled by a reduce
\* (none of the keys used here is an integer-like string).
RECURSIVE DistinctInOrder(_)
DistinctInOrder(s) ==
    IF s = <<>> THEN <<>>
    ELSE LET rest == DistinctInOrder(SubSeq(s, 1, Len(s) - 1))
             last == s[Len(s)]
         IN  IF \E i \in 1..Len(rest) : rest[i] = last THEN rest ELSE Append(rest, last)

RECURSIVE Flatten(_)
Flatten(ss) == IF ss = <<>> THEN <<>> ELSE Head(ss) \o Flatten(Tail(ss))

RECURSIVE SeqsUpTo(_, _)
SeqsUpTo(S, n) ==
    IF n = 0 THEN {<<>>}
    ELSE LET shorter == SeqsUpTo(S, n - 1)
         IN  shorter \cup {Append(s, e) : s \in shorter, e \in S}

-----------------------------------------------------------------------------
(* Layout settings and constants of createNodes.                           *)

HierarchyTypes == {"regional", "layered", "grouped", "circular"}

DefaultVerticalSpacing == 150

DefaultHorizontalSpacing == 200

MaxVerticalSpacing == 300

NodeWidth == 160

NodeHeight == 80

RegionSpacing == 300

GroupSpacing == 100

DefaultLayoutSettings ==
    [verticalSpacing |-> DefaultVerticalSpacing,
     horizontalSpacing |-> DefaultHorizontalSpacing,
     hierarchyType |-> "regional"]

Variants == {"Flow", "FlowWithDownload", "FlowBasic"}

\* resources.reduce((acc, r) => { acc[r[key]].push(r) ... }) followed by
\* Object.entries: the groups in key order, each a sequence of resources.
GroupBy(rs, key) ==
    LET keys == DistinctInOrder([i \in 1..Len(rs) |-> rs[i][key]])
    IN  [g \in 1..Len(keys) |-> SelectSeq(rs, LAMBDA r : r[key] = keys[g])]

\* One service group laid out as a grid of ceil(sqrt(n)) columns.
GridNodes(group, currentX, currentY, ls) ==
    LET groupWidth == CeilSqrt(Len(group))
    IN  [i \in 1..Len(group) |->
            [id |-> group[i].id,
             position |->
                [x |-> currentX + ((i - 1) % groupWidth) * (NodeWidth + ls.horizontalSpacing),
                 y |-> currentY + ((i - 1) \div groupWidth) * ls.verticalSpacing]]]

\* The inner forEach over the service groups of one region: currentX advances
\* past each group.
RECURSIVE RegionServiceNodes(_, _, _, _)
RegionServiceNodes(groups, currentX, currentY, ls) ==
    IF groups = <<>> THEN <<>>
    ELSE LET group == Head(groups)
             groupWidth == CeilSqrt(Len(group))
         IN  GridNodes(group, currentX, currentY, ls)
             \o RegionServiceNodes(Tail(groups),
                    currentX + groupWidth * (NodeWidth + ls.horizontalSpacing) + GroupSpacing,
                    currentY, ls)

\* The outer forEach over the regions: currentY advances by regionSpacing.
RECURSIVE RegionalNodes(_, _, _)
RegionalNodes(regionGroups, currentY, ls) ==
    IF regionGroups = <<>> THEN <<>>
    ELSE RegionServiceNodes(GroupBy(Head(regionGroups), "serviceType"), 0, currentY, ls)
         \o RegionalNodes(Tail(regionGroups), currentY + RegionSpacing, ls)

\* CircularNodes on a circle of the minimum radius whatever the node count.
CircularNodesFixedRadius(rs) ==
    [i \in 1..Len(rs) |->
        [id |-> rs[i].id,
         position |-> [radius |-> 400, index |-> i - 1, count |-> Len(rs)]]]

\* The circular branch: the node of index i is at angle i * (2*PI / n) on the
\* circle of radius max(50 * n, 400).  The position is kept in polar form
\* (radius, index, count), x = radius * cos(index * 2*PI / count).
CircularNodes(rs) ==
    LET totalNodes == Len(rs)
        radius == IF totalNodes * 50 > 400 THEN totalNodes * 50 ELSE 400
    IN  [i \in 1..Len(rs) |->
            [id |-> rs[i].id,
             position |-> [radius |-> radius, index |-> i - 1, count |-> totalNodes]]]

\* hierarchyLevels[serviceType] || 0 of Flow
FlowHierarchyLevel(serviceType) ==
    CASE serviceType = "Route 53" -> 0
      [] serviceType \in {"CloudFront", "WAF", "ACM"} -> 1
      [] serviceType \in {"Security Groups", "ELB"} -> 2
      [] serviceType \in {"EC2", "ECS", "Lambda"} -> 3
      [] serviceType \in {"RDS", "S3", "ECR"} -> 4
      [] serviceType = "IAM" -> 5
      [] OTHER -> 0

\* createNodes of Flow.  The layered and grouped branches read serviceGroups,
\* which is declared only inside the regional branch's callback: evaluating
\* Object.entries(serviceGroups) throws a ReferenceError.
FlowCreateNodes(rs, ls) ==
    CASE ls.hierarchyType = "regional" ->
            [threw |-> FALSE, nodes |-> RegionalNodes(GroupBy(rs, "region"), 0, ls)]
      [] ls.hierarchyType = "layered" -> [threw |-> TRUE, nodes |-> <<>>]
      [] ls.hierarchyType = "grouped" -> [threw |-> TRUE, nodes |-> <<>>]
      [] ls.hierarchyType = "circular" ->
            [threw |-> FALSE, nodes |-> CircularNodes(rs)]
      [] OTHER -> [threw |-> FALSE, nodes |-> <<>>]

\* hierarchyLevels[serviceType] || 0 of FlowWithDownload
DownloadHierarchyLevel(serviceType) ==
    CASE serviceType = "Route 53" -> 0
      [] serviceType = "ACM" -> 1
      [] serviceType = "ELB" -> 2
      [] serviceType \in {"EC2", "ECS", "Lambda"} -> 3
      [] serviceType \in {"ECR", "RDS", "S3"} -> 4
      [] serviceType \in {"IAM", "EventBridge"} -> 5
      [] OTHER -> 0

LevelSpacing == 200

NodeSpacing == 150

DownloadNodeWidth == 200

\* One service group of FlowWithDownload: a row centred on x = 0.
DownloadGroupNodes(group) ==
    LET y == DownloadHierarchyLevel(group[1].serviceType) * LevelSpacing
        totalWidth == Len(group) * (DownloadNodeWidth + NodeSpacing) - NodeSpacing
        startX == -(totalWidth \div 2)
    IN  [i \in 1..Len(group) |->
            [id |-> group[i].id,
             position |-> [x |-> startX + (i - 1) * (DownloadNodeWidth + NodeSpacing),
                           y |-> y]]]

DownloadCreateNodes(rs) ==
    LET groups == GroupBy(rs, "serviceType")
    IN  [threw |-> FALSE,
         nodes |-> Flatten([g \in 1..Len(groups) |-> DownloadGroupNodes(groups[g])])]

BasicSpacing == 300

BasicTop == 100

BasicRowSpacing == 150

\* createNodes of FlowBasic: one column per service type, in resource order.
BasicCreateNodes(rs) ==
    LET keys == DistinctInOrder([i \in 1..Len(rs) |-> rs[i].serviceType])
        column(st) == CHOOSE g \in 1..Len(keys) : keys[g] = st
        count(i) == Cardinality({j \in 1..(i - 1) : rs[j].serviceType = rs[i].serviceType})
    IN  [threw |-> FALSE,
         nodes |-> [i \in 1..Len(rs) |->
                      [id |-> rs[i].id,
                       position |-> [x |-> (column(rs[i].serviceType) - 1) * BasicSpacing,
                                     y |-> BasicTop + count(i) * BasicRowSpacing]]]]

createNodes(v, rs, ls) ==
    CASE v = "Flow" -> FlowCreateNodes(rs, ls)
      [] v = "FlowWithDownload" -> DownloadCreateNodes(rs)
      [] OTHER -> BasicCreateNodes(rs)

-----------------------------------------------------------------------------
(* createEdges.  An edge is [id, source, target, label, stroke].  A rule   *)
(* yields candidate edges; the variant decides how a candidate is pushed.  *)

HasRelationships(r) == "relationships" \in DOMAIN r

HasField(r, f) == HasRelationships(r) /\ f \in DOMAIN r.relationships

\* resource.relationships?.f for a string field; "" stands for undefined
\* (both are falsy, and the field is only read under a truthiness test).
StrField(r, f) == IF HasField(r, f) THEN r.relationships[f] ELSE ""

\* resource.relationships?.f for an array field that is iterated only when
\* it is present.
ListField(r, f) == IF HasField(r, f) THEN r.relationships[f] ELSE <<>>

\* IsSelected for a component that never marks an edge.
IsSelectedNever(id, sel) == FALSE

IsSelected(id, sel) == sel = <<id>>

\* NextFreeId without the loop: the counter is appended once, whether or not
\* the result is free.
NextFreeIdNoLoop(base, counter, used) == base \o "-" \o ToString(counter)

\* createUniqueEdgeId: base, or base-counter for the first free counter.
RECURSIVE NextFreeId(_, _, _)
NextFreeId(base, counter, used) ==
    LET id == base \o "-" \o ToString(counter)
    IN  IF id \in used THEN NextFreeId(base, counter + 1, used) ELSE id

createUniqueEdgeId(base, used) ==
    IF base \in used THEN NextFreeId(base, 1, used) ELSE base

Candidate(base, source, target, label, color) ==
    [base |-> base, source |-> source, target |-> target, label |-> label, color |-> color]

\* if (cond) { one edge }
One(cond, cand) == IF cond THEN <<cand>> ELSE <<>>

\* The candidates of Flow's rules for one resource, in source order.
FlowCandidates(r) ==
    IF ~HasRelationships(r) THEN <<>>
    ELSE
    LET id == r.id
        isR53 == r.serviceType = "Route 53"
        isWAF == r.serviceType = "WAF"
        lb == StrField(r, "loadBalancer")
        cf == StrField(r, "cloudfront")
        bucket == StrField(r, "bucket")
        hz == StrField(r, "hostedZone")
        cert == StrField(r, "certificate")
        repo == StrField(r, "repository")
        origin == StrField(r, "origin")
        wafAcl == StrField(r, "wafAcl")
        pb == StrField(r, "protectedBy")
        each(f, mk(_)) == LET l == ListField(r, f) IN [i \in 1..Len(l) |-> mk(l[i])]
    IN  One(isR53 /\ lb # "", Candidate("route53-alb-" \o id \o "-" \o lb, id, lb, "ALB Record", "#F0E68C"))
     \o One(isR53 /\ cf # "", Candidate("route53-cf-" \o id \o "-" \o cf, id, cf, "CloudFront Record", "#F0E68C"))
     \o One(isR53 /\ bucket # "", Candidate("route53-s3-" \o id \o "-" \o bucket, id, bucket, "S3 Record", "#F0E68C"))
     \o One(isR53 /\ hz # "", Candidate("route53-hz-" \o id \o "-" \o hz, id, hz, "Hosted Zone", "#F0E68C"))
     \o each("dnsRecords", LAMBDA x : Candidate("dns-" \o id \o "-" \o x, x, id, "DNS Record", "#F0E68C"))
     \o each("aliases", LAMBDA x : Candidate("alias-" \o id \o "-" \o x, id, x, "Alias", "#F0E68C"))
     \o each("securityGroups", LAMBDA x : Candidate(id \o "-" \o x, id, x, "Security Group", "#94a3b8"))
     \o each("targetGroups", LAMBDA x : Candidate(id \o "-" \o x, id, x, "Target Group", "#94a3b8"))
     \o One(lb # "", Candidate(id \o "-" \o lb, id, lb, "Load Balancer", "#94a3b8"))
     \o One(cert # "", Candidate(id \o "-" \o cert, id, cert, "Certificate", "#94a3b8"))
     \o each("instances", LAMBDA x : Candidate(id \o "-" \o x, id, x, "Instance", "#94a3b8"))
     \o each("volumes", LAMBDA x : Candidate(id \o "-" \o x, id, x, "Volume", "#94a3b8"))
     \o One(cf # "", Candidate(id \o "-" \o cf, id, cf, "CloudFront", "#94a3b8"))
     \o One(repo # "", Candidate(id \o "-" \o repo, id, repo, "Container Repository", "#94a3b8"))
     \o One(origin # "", Candidate(id \o "-" \o origin, id, origin, "Origin", "#94a3b8"))
     \o One(wafAcl # "", Candidate(id \o "-" \o wafAcl, id, wafAcl, "WAF ACL", "#94a3b8"))
     \o each("wafRules", LAMBDA x : Candidate(id \o "-" \o x, id, x, "WAF Rule", "#94a3b8"))
     \o each("wafAssociations", LAMBDA x : Candidate(id \o "-" \o x, id, x, "Protects", "#94a3b8"))
     \o One(pb # "", Candidate(pb \o "-" \o id, pb, id, "Protected By", "#94a3b8"))
     \o (IF isWAF
         THEN each("wafAssociations", LAMBDA x : Candidate("waf-" \o id \o "-" \o x, id, x, "Protects", "#FF69B4"))
              \o each("wafRules", LAMBDA x : Candidate("waf-rule-" \o id \o "-" \o x, id, x, "WAF Rule", "#FF69B4"))
         ELSE <<>>)
     \o One(pb # "", Candidate("protected-" \o pb \o "-" \o id, pb, id, "Protected By WAF", "#FF69B4"))

\* Flow pushes every candidate under the id createUniqueEdgeId gives it.
RECURSIVE FlowPush(_, _, _)
FlowPush(cands, st, sel) ==
    IF cands = <<>> THEN st
    ELSE LET c == Head(cands)
             edgeId == createUniqueEdgeId(c.base, st.used)
             edge == [id |-> edgeId, source |-> c.source, target |-> c.target,
                      label |-> c.label,
                      stroke |-> IF IsSelected(edgeId, sel) THEN "#60a5fa" ELSE c.color]
         IN  FlowPush(Tail(cands),
                      [st EXCEPT !.edges = Append(@, edge), !.used = @ \cup {edgeId}], sel)

\* A candidate edge of FlowWithDownload / FlowBasic: `guarded` when the push
\* is skipped for an id already in addedEdges, `adds` when the id is added.
Emission(id, source, target, label, guarded, adds) ==
    [id |-> id, source |-> source, target |-> target, label |-> label,
     guarded |-> guarded, adds |-> adds]

\* resources.filter(p) as the sequence of matching resources
Filter(rs, p(_)) == SelectSeq(rs, p)

\* resources.find(p) as a sequence of at most one resource
Find(rs, p(_)) == LET m == SelectSeq(rs, p) IN IF m = <<>> THEN <<>> ELSE <<m[1]>>

\* The callback of dnsRecords.some for a record that has a name.
DnsMatches(recordName, dns) ==
    LET cleanDns == StripTrailingDot(dns)
        cleanRecordName == StripTrailingDot(recordName)
    IN  \/ cleanRecordName = cleanDns
        \/ EndsWith(cleanRecordName, "." \o cleanDns)
        \/ EndsWith(cleanDns, "." \o cleanRecordName)

\* resource.name.replace throws a TypeError when the record has no name and
\* the some-callback is called at all: an Application Load Balancer with a
\* non-empty dnsRecords precedes or follows in the list.
DnsRuleThrows(rs, r) ==
    /\ r.type = "Route 53 Record"
    /\ "name" \notin DOMAIN r
    /\ \E j \in 1..Len(rs) :
          rs[j].type = "Application Load Balancer" /\ ListField(rs[j], "dnsRecords") # <<>>

SecurityGroupRule(r) ==
    LET l == ListField(r, "securityGroups")
    IN  [i \in 1..Len(l) |->
            Emission(r.id \o "-" \o l[i] \o "-sg", r.id, l[i], "Security Group", TRUE, TRUE)]

TargetGroupRule(r, adds) ==
    LET lb == StrField(r, "loadBalancer")
    IN  One(r.type = "Target Group" /\ lb # "",
            Emission(lb \o "-" \o r.id \o "-tg", lb, r.id, "Target Group", FALSE, adds))

DnsAliasRule(rs, r) ==
    IF r.type # "Route 53 Record" \/ "name" \notin DOMAIN r THEN <<>>
    ELSE LET loadBalancers ==
                 Filter(rs, LAMBDA x :
                     /\ x.type = "Application Load Balancer"
                     /\ \E k \in 1..Len(ListField(x, "dnsRecords")) :
                           DnsMatches(r.name, ListField(x, "dnsRecords")[k]))
         IN  [i \in 1..Len(loadBalancers) |->
                 Emission(r.id \o "-" \o loadBalancers[i].id \o "-dns", r.id,
                          loadBalancers[i].id, "DNS Alias", TRUE, TRUE)]

HostedZoneRule(rs, r) ==
    IF r.type # "Route 53 Record" THEN <<>>
    ELSE LET hostedZone ==
                 Find(rs, LAMBDA x : x.type = "Route 53 Hosted Zone" /\ StartsWith(r.id, x.id))
         IN  [i \in 1..Len(hostedZone) |->
                 Emission(hostedZone[i].id \o "-" \o r.id \o "-zone", hostedZone[i].id, r.id,
                          "Record", TRUE, TRUE)]

CertificateRule(r, adds) ==
    LET lb == StrField(r, "loadBalancer")
    IN  One(r.type = "ACM Certificate" /\ lb # "",
            Emission(r.id \o "-" \o lb \o "-cert", r.id, lb, "SSL/TLS", FALSE, adds))

VolumeRule(r, adds) ==
    LET l == ListField(r, "volumes")
    IN  [i \in 1..Len(l) |->
            Emission(r.id \o "-" \o l[i] \o "-vol", r.id, l[i], "Volume", FALSE, adds)]

\* An emission from each resource of `others` to r (others -> r), or from r to
\* each of them, with the id built from the source id, the target id and a suffix.
FromOthers(others, r, suffix, label) ==
    [i \in 1..Len(others) |->
        Emission(others[i].id \o "-" \o r.id \o suffix, others[i].id, r.id, label, TRUE, TRUE)]

ToOthers(r, others, suffix, label) ==
    [i \in 1..Len(others) |->
        Emission(r.id \o "-" \o others[i].id \o suffix, r.id, others[i].id, label, TRUE, TRUE)]

\* SameRegion without the comparison of the regions.
SameRegionAnyRegion(rs, r, type) == Filter(rs, LAMBDA x : x.type = type)

SameRegion(rs, r, type) == Filter(rs, LAMBDA x : x.type = type /\ x.region = r.region)

\* IgwLoadBalancerRule without the test of the resource's own type.
IgwLoadBalancerRuleAnyType(rs, r) ==
    FromOthers(Find(rs, LAMBDA x : x.type = "Internet Gateway" /\ x.region = r.region),
               r, "-igw", "Internet Access")

IgwLoadBalancerRule(rs, r) ==
    IF r.type # "Application Load Balancer" THEN <<>>
    ELSE FromOthers(Find(rs, LAMBDA x : x.type = "Internet Gateway" /\ x.region = r.region),
                    r, "-igw", "Internet Access")

NatLoadBalancerRule(rs, r) ==
    IF r.type # "NAT Gateway" THEN <<>>
    ELSE ToOthers(r, SameRegion(rs, r, "Application Load Balancer"), "-nat", "NAT Access")

IgwNatRule(rs, r) ==
    IF r.type # "NAT Gateway" THEN <<>>
    ELSE FromOthers(Find(rs, LAMBDA x : x.type = "Internet Gateway" /\ x.region = r.region),
                    r, "-igw-nat", "Internet Access")

EcsTargetGroupRule(rs, r) ==
    IF r.type # "ECS Service" THEN <<>>
    ELSE ToOthers(r, SameRegion(rs, r, "Target Group"), "-tg", "Service Registration")

EventBridgeLambdaRule(rs, r) ==
    IF r.type # "EventBridge Rule" THEN <<>>
    ELSE ToOthers(r, SameRegion(rs, r, "Lambda Function"), "-event", "Trigger")

EcsClusterRule(rs, r) ==
    IF r.type # "ECS Service" THEN <<>>
    ELSE FromOthers(Find(rs, LAMBDA x : x.type = "ECS Cluster" /\ Includes(r.id, x.id)),
                    r, "-cluster", "Service")

ApiGatewayLambdaRule(rs, r) ==
    IF r.type # "Lambda Function" THEN <<>>
    ELSE FromOthers(SameRegion(rs, r, "API Gateway"), r, "-api", "Integration")

\* The emissions of one iteration step, in source order.  FlowBasic has the
\* first six rules only and does not add the ids of its unguarded pushes.
DownloadEmissions(v, rs, r) ==
    LET adds == v = "FlowWithDownload"
    IN  SecurityGroupRule(r) \o TargetGroupRule(r, adds) \o DnsAliasRule(rs, r)
        \o HostedZoneRule(rs, r) \o CertificateRule(r, adds) \o VolumeRule(r, adds)
        \o (IF v = "FlowWithDownload"
            THEN IgwLoadBalancerRule(rs, r) \o NatLoadBalancerRule(rs, r) \o IgwNatRule(rs, r)
                 \o EcsTargetGroupRule(rs, r) \o EventBridgeLambdaRule(rs, r)
                 \o EcsClusterRule(rs, r) \o ApiGatewayLambdaRule(rs, r)
            ELSE <<>>)

\* createEdgeWithSelection (FlowWithDownload) / the literal style (FlowBasic)
DownloadStroke(v, id, sel) ==
    IF v = "FlowWithDownload"
    THEN (IF IsSelected(id, sel) THEN "#ef4444" ELSE "#94a3b8")
    ELSE "#666"

RECURSIVE DownloadPush(_, _, _, _)
DownloadPush(v, ems, st, sel) ==
    IF ems = <<>> THEN st
    ELSE LET e == Head(ems)
             edge == [id |-> e.id, source |-> e.source, target |-> e.target,
                      label |-> e.label, stroke |-> DownloadStroke(v, e.id, sel)]
             pushed == ~(e.guarded /\ e.id \in st.used)
         IN  DownloadPush(v, Tail(ems),
                 [st EXCEPT !.edges = IF pushed THEN Append(@, edge) ELSE @,
                            !.used = IF pushed /\ e.adds THEN @ \cup {e.id} ELSE @],
                 sel)

\* One iteration of resources.forEach in createEdges; st = [edges, used, threw].
EdgeStep(v, rs, r, st, sel) ==
    CASE v = "Flow" -> FlowPush(FlowCandidates(r), st, sel)
      [] DnsRuleThrows(rs, r) -> [edges |-> <<>>, used |-> st.used, threw |-> TRUE]
      [] OTHER -> DownloadPush(v, DownloadEmissions(v, rs, r), st, sel)

RECURSIVE EdgeLoop(_, _, _, _, _)
EdgeLoop(v, rs, i, st, sel) ==
    IF i > Len(rs) \/ st.threw THEN st
    ELSE EdgeLoop(v, rs, i + 1, EdgeStep(v, rs, rs[i], st, sel), sel)

\* createEdges(): the edges returned, or threw.
createEdges(v, rs, sel) ==
    EdgeLoop(v, rs, 1, [edges |-> <<>>, used |-> {}, threw |-> FALSE], sel)

-----------------------------------------------------------------------------
(* The page before any scan.                                                *)

\* The map component before it is given resources.
BuildersIdle ==
    /\ variant = "Flow"
    /\ resources = <<>>
    /\ layoutSettings = DefaultLayoutSettings
    /\ selectedEdge = <<>>
    /\ nodes = <<>>
    /\ edges = <<>>
    /\ usedKeys = {}
    /\ emitted = <<>>
    /\ idx = 0
    /\ pc = "idle"

\* The components of the other pages are not mounted.
WidgetsIdle ==
    /\ chain = <<>>
    /\ store = <<>>
    /\ gif = <<>>

EmptyLog == [called |-> {}, succeeded |-> {}, failedBlocks |-> {}, settled |-> {}]

ScanIdle ==
    /\ page = "Home"
    /\ loading = FALSE
    /\ error = FALSE
    /\ discoveredResources = <<>>
    /\ step = 0
    /\ inflight = {}
    /\ failures = 0
    /\ log = EmptyLog
    /\ scans = 0

-----------------------------------------------------------------------------
(* Inputs of the layout checks: resources that differ in service type and  *)
(* region, with ids unique within the list.                                *)

NodeKinds ==
    {[serviceType |-> st, region |-> rg] :
        st \in {"EC2", "ECS", "Route 53", "Glue"}, rg \in {"us-east-1", "eu-west-1"}}

NodeResource(kind, i) ==
    [type |-> kind.serviceType \o " Resource",
     serviceType |-> kind.serviceType,
     name |-> "res" \o ToString(i),
     id |-> "id-" \o ToString(i),
     region |-> kind.region]

\* n resources of one kind.
Block(kind, n) == [i \in 1..n |-> kind]

\* Every short list, and the lists of one large service group followed by a
\* few resources of a second kind.
NodeKindLists ==
    SeqsUpTo(NodeKinds, MaxNodeResources)
    \cup {Block(k1, n1) \o Block(k2, n2) :
              k1 \in NodeKinds, n1 \in 0..MaxGroupSize, k2 \in NodeKinds, n2 \in 0..2}

NodeInputs ==
    {[i \in 1..Len(ks) |-> NodeResource(ks[i], i)] : ks \in NodeKindLists}

LayoutInputs ==
    {[verticalSpacing |-> vs, horizontalSpacing |-> DefaultHorizontalSpacing, hierarchyType |-> ht] :
        vs \in {DefaultVerticalSpacing, MaxVerticalSpacing}, ht \in HierarchyTypes}

InitNodes ==
    /\ ScanIdle
    /\ WidgetsIdle
    /\ variant \in Variants
    /\ resources \in NodeInputs
    /\ layoutSettings \in (IF variant = "Flow" THEN LayoutInputs ELSE {DefaultLayoutSettings})
    /\ selectedEdge = <<>>
    /\ nodes = <<>>
    /\ edges = <<>>
    /\ usedKeys = {}
    /\ emitted = <<>>
    /\ idx = 0
    /\ pc = "input"

\* One invocation of createNodes on the current inputs.
CreateNodes ==
    /\ pc = "input"
    /\ LET res == createNodes(variant, resources, layoutSettings)
       IN  /\ nodes' = res.nodes
           /\ pc' = IF res.threw THEN "nodesThrew" ELSE "nodes"
    /\ UNCHANGED <<variant, resources, layoutSettings, selectedEdge, edges,
                   usedKeys, emitted, idx>>
    /\ UNCHANGED <<scanVars, widgetVars>>

NextNodes == CreateNodes

SpecNodes == InitNodes /\ [][NextNodes]_vars

-----------------------------------------------------------------------------
(* Inputs of the edge checks: resources as the scan produces them (records *)
(* and hosted zones with composite ids, load balancers with dnsRecords),   *)
(* resources without relationships or without a name, ids that contain the *)
(* "-" the edge ids are joined with, and a list with a repeated entry.     *)

RecordApi ==
    [type |-> "Route 53 Record", serviceType |-> "Route 53", name |-> "api.example.com.",
     id |-> "Z1/api.example.com./A", region |-> "global",
     relationships |-> [loadBalancer |-> "alb-1"]]

RecordNoName ==
    [type |-> "Route 53 Record", serviceType |-> "Route 53",
     id |-> "Z12/x/A", region |-> "global"]

ZoneZ1 ==
    [type |-> "Route 53 Hosted Zone", serviceType |-> "Route 53", name |-> "example.com.",
     id |-> "Z1", region |-> "global"]

AlbApi ==
    [type |-> "Application Load Balancer", serviceType |-> "ELB", name |-> "api-lb",
     id |-> "alb-1", region |-> "us-east-1",
     relationships |-> [securityGroups |-> <<"sg-1", "sg-2">>,
                        dnsRecords |-> <<"api.example.com">>]]

AlbBare ==
    [type |-> "Application Load Balancer", serviceType |-> "ELB", name |-> "bare-lb",
     id |-> "alb-2", region |-> "us-east-1"]

Igw ==
    [type |-> "Internet Gateway", serviceType |-> "EC2", name |-> "igw",
     id |-> "igw-1", region |-> "us-east-1"]

InstA ==
    [type |-> "EC2 Instance", serviceType |-> "EC2", name |-> "a",
     id |-> "a", region |-> "us-east-1",
     relationships |-> [securityGroups |-> <<"b-c">>, targetGroups |-> <<"b-c">>,
                        volumes |-> <<"v", "v">>]]

InstAB ==
    [type |-> "EC2 Instance", serviceType |-> "EC2", name |-> "ab",
     id |-> "a-b", region |-> "eu-west-1",
     relationships |-> [securityGroups |-> <<"c">>]]

Tg ==
    [type |-> "Target Group", serviceType |-> "ELB", name |-> "tg",
     id |-> "tg-1", region |-> "us-east-1",
     relationships |-> [loadBalancer |-> "alb-1"]]

\* An instance whose first volume id ends in "-1".
InstV ==
    [type |-> "EC2 Instance", serviceType |-> "EC2", name |-> "i",
     id |-> "i", region |-> "eu-west-1",
     relationships |-> [volumes |-> <<"v-1", "v", "v">>]]

\* A second hosted zone, whose id the id of the first zone is a prefix of,
\* and a record listed from it.
ZoneZ12 ==
    [type |-> "Route 53 Hosted Zone", serviceType |-> "Route 53", name |-> "example.org.",
     id |-> "Z12", region |-> "global"]

RecordX ==
    [type |-> "Route 53 Record", serviceType |-> "Route 53", name |-> "x.example.org.",
     id |-> "Z12/x.example.org./A", region |-> "global",
     relationships |-> [loadBalancer |-> "alb-2"]]

EdgeSamples ==
    {RecordApi, RecordNoName, ZoneZ1, AlbApi, AlbBare, Igw, InstA, InstAB, Tg, InstV,
     ZoneZ12, RecordX}

EdgeInputs == SeqsUpTo(EdgeSamples, MaxEdgeResources)

InitEdges ==
    /\ ScanIdle
    /\ WidgetsIdle
    /\ variant \in Variants
    /\ resources \in EdgeInputs
    /\ layoutSettings = DefaultLayoutSettings
    /\ selectedEdge = <<>>
    /\ nodes = <<>>
    /\ edges = <<>>
    /\ usedKeys = {}
    /\ emitted = <<>>
    /\ idx = 0
    /\ pc = "input"

\* One iteration of the resources.forEach of createEdges.
CreateEdgesStep ==
    /\ pc \in {"nodes", "edges"}
    /\ idx < Len(resources)
    /\ LET st == EdgeStep(variant, resources, resources[idx + 1],
                          [edges |-> edges, used |-> usedKeys, threw |-> FALSE], selectedEdge)
       IN  /\ edges' = st.edges
           /\ usedKeys' = st.used
           /\ emitted' = IF st.threw THEN <<>> ELSE SubSeq(st.edges, Len(edges) + 1, Len(st.edges))
           /\ pc' = IF st.threw THEN "edgesThrew" ELSE "edges"
    /\ idx' = idx + 1
    /\ UNCHANGED <<variant, resources, layoutSettings, selectedEdge, nodes>>
    /\ UNCHANGED <<scanVars, widgetVars>>

\* return edges
CreateEdgesReturn ==
    /\ pc \in {"nodes", "edges"}
    /\ idx = Len(resources)
    /\ pc' = "done"
    /\ UNCHANGED <<variant, resources, layoutSettings, selectedEdge, nodes, edges,
                   usedKeys, emitted, idx>>
    /\ UNCHANGED <<scanVars, widgetVars>>

NextEdges == CreateNodes \/ CreateEdgesStep \/ CreateEdgesReturn

SpecEdges == InitEdges /\ [][NextEdges]_vars

\* The builds of the components that have a selectedEdge state (FlowBasic has
\* none), for every value of it: null, the id of an edge of the graph, an id
\* of no edge.
SelectionInputs(v, rs) ==
    LET es == createEdges(v, rs, <<>>).edges
    IN  {<<>>, <<"no-such-edge">>} \cup {<<es[k].id>> : k \in 1..Len(es)}

SelectInputs == SeqsUpTo(EdgeSamples, MaxSelectResources)

InitSelect ==
    /\ ScanIdle
    /\ WidgetsIdle
    /\ variant \in {"Flow", "FlowWithDownload"}
    /\ resources \in SelectInputs
    /\ layoutSettings = DefaultLayoutSettings
    /\ selectedEdge \in SelectionInputs(variant, resources)
    /\ nodes = <<>>
    /\ edges = <<>>
    /\ usedKeys = {}
    /\ emitted = <<>>
    /\ idx = 0
    /\ pc = "input"

SpecSelect == InitSelect /\ [][NextEdges]_vars

-----------------------------------------------------------------------------
(* Inputs of the same-region checks: resources of the types the rules of   *)
(* FlowWithDownload are keyed by, in two regions, with the ids the scan    *)
(* gives them (unique within the account).                                 *)

RegionTypes ==
    {[type |-> "Internet Gateway", serviceType |-> "EC2", tag |-> "igw"],
     [type |-> "NAT Gateway", serviceType |-> "EC2", tag |-> "nat"],
     [type |-> "Application Load Balancer", serviceType |-> "ELB", tag |-> "alb"],
     [type |-> "Target Group", serviceType |-> "ELB", tag |-> "tg"],
     [type |-> "ECS Service", serviceType |-> "ECS", tag |-> "svc"],
     [type |-> "EventBridge Rule", serviceType |-> "EventBridge", tag |-> "rule"],
     [type |-> "Lambda Function", serviceType |-> "Lambda", tag |-> "fn"],
     [type |-> "API Gateway", serviceType |-> "API Gateway", tag |-> "api"]}

RegionResource(t, rg) ==
    [type |-> t.type, serviceType |-> t.serviceType, name |-> t.tag,
     id |-> t.tag \o "@" \o rg, region |-> rg]

RegionSamples == {RegionResource(t, rg) : t \in RegionTypes, rg \in {"us-east-1", "eu-west-1"}}

RegionInputs == SeqsUpTo(RegionSamples, MaxRegionResources)

InitRegions ==
    /\ ScanIdle
    /\ WidgetsIdle
    /\ variant = "FlowWithDownload"
    /\ resources \in RegionInputs
    /\ layoutSettings = DefaultLayoutSettings
    /\ selectedEdge = <<>>
    /\ nodes = <<>>
    /\ edges = <<>>
    /\ usedKeys = {}
    /\ emitted = <<>>
    /\ idx = 0
    /\ pc = "input"

SpecRegions == InitRegions /\ [][NextEdges]_vars

-----------------------------------------------------------------------------
(* The mounted component: its props and state, and the handlers that       *)
(* change them.  nodes and edges are what the component hands to ReactFlow *)
(* once the handler's render and effects have run; pc = "crashed" after an *)
(* exception thrown while rendering or in an effect.                        *)

LifeInputs ==
    {<<InstA>>, <<InstAB, InstA>>, <<AlbBare, Igw>>, <<RecordApi, AlbApi>>,
     <<RecordNoName, ZoneZ1>>}

\* Positions a dragged node is dropped at.
DropPositions == {[x |-> 0, y |-> 0], [x |-> 500, y |-> 500]}

\* The first render of a mounted component and the effects after it.
Rendered(v, rs, ls, sel) ==
    LET ns == createNodes(v, rs, ls)
        es == createEdges(v, rs, sel)
    IN  IF ns.threw \/ es.threw
        THEN [nodes |-> <<>>, edges |-> <<>>, pc |-> "crashed"]
        ELSE [nodes |-> ns.nodes, edges |-> es.edges, pc |-> "mounted"]

InitLife ==
    /\ ScanIdle
    /\ WidgetsIdle
    /\ variant \in Variants
    /\ resources \in LifeInputs
    /\ layoutSettings = DefaultLayoutSettings
    /\ selectedEdge = <<>>
    /\ LET r == Rendered(variant, resources, layoutSettings, selectedEdge)
       IN  nodes = r.nodes /\ edges = r.edges /\ pc = r.pc
    /\ usedKeys = {}
    /\ emitted = <<>>
    /\ idx = 0

\* The parent passes another resources prop to the mounted component.
SetResources ==
    /\ pc = "mounted"
    /\ \E rs \in LifeInputs \ {resources} :
          LET ns == IF variant = "FlowWithDownload"
                    THEN [threw |-> FALSE, nodes |-> nodes]
                    ELSE createNodes(variant, rs, layoutSettings)
              es == createEdges(variant, rs, selectedEdge)
          IN  /\ resources' = rs
              /\ IF ns.threw \/ es.threw
                 THEN nodes' = <<>> /\ edges' = <<>> /\ pc' = "crashed"
                 ELSE nodes' = ns.nodes /\ edges' = es.edges /\ pc' = "mounted"
    /\ UNCHANGED <<variant, layoutSettings, selectedEdge, usedKeys, emitted, idx>>
    /\ UNCHANGED <<scanVars, widgetVars>>

\* The page clears the resources when a scan starts and sets them when it
\* ends: the component is unmounted and a new one is mounted.
Remount ==
    /\ \E rs \in LifeInputs :
          LET r == Rendered(variant, rs, DefaultLayoutSettings, <<>>)
          IN  /\ resources' = rs
              /\ nodes' = r.nodes /\ edges' = r.edges /\ pc' = r.pc
    /\ layoutSettings' = DefaultLayoutSettings
    /\ selectedEdge' = <<>>
    /\ UNCHANGED <<variant, usedKeys, emitted, idx>>
    /\ UNCHANGED <<scanVars, widgetVars>>

\* The layout panel's onChange: the settings merged with the changed one,
\* then the effect setNodes(createNodes()).
UpdateLayoutSettings ==
    /\ pc = "mounted"
    /\ variant = "Flow"
    /\ \E ls \in {[layoutSettings EXCEPT !.hierarchyType = t] :
                     t \in {"regional", "grouped", "layered"}}
                 \cup {[layoutSettings EXCEPT !.verticalSpacing = vs] :
                     vs \in {DefaultVerticalSpacing, MaxVerticalSpacing}} :
          /\ ls # layoutSettings
          /\ layoutSettings' = ls
          /\ LET ns == createNodes(variant, resources, ls)
             IN  IF ns.threw
                 THEN nodes' = <<>> /\ edges' = <<>> /\ pc' = "crashed"
                 ELSE nodes' = ns.nodes /\ edges' = edges /\ pc' = "mounted"
    /\ UNCHANGED <<variant, resources, selectedEdge, usedKeys, emitted, idx>>
    /\ UNCHANGED <<scanVars, widgetVars>>

\* An onEdgeClick that selects the clicked edge whatever is selected.
OnEdgeClickSelectsOnly ==
    /\ pc = "mounted"
    /\ variant # "FlowBasic"
    /\ \E k \in 1..Len(edges) :
          /\ selectedEdge' = <<edges[k].id>>
          /\ edges' = createEdges(variant, resources, <<edges[k].id>>).edges
    /\ UNCHANGED <<variant, resources, layoutSettings, nodes, usedKeys, emitted, idx, pc>>
    /\ UNCHANGED <<scanVars, widgetVars>>

\* setSelectedEdge in onEdgeClick, and the render that follows.
OnEdgeClick ==
    /\ pc = "mounted"
    /\ variant # "FlowBasic"
    /\ \E k \in 1..Len(edges) :
          LET sel == IF variant = "FlowWithDownload" /\ selectedEdge = <<edges[k].id>>
                     THEN <<>> ELSE <<edges[k].id>>
          IN  /\ selectedEdge' = sel
              /\ edges' = createEdges(variant, resources, sel).edges
    /\ UNCHANGED <<variant, resources, layoutSettings, nodes, usedKeys, emitted, idx, pc>>
    /\ UNCHANGED <<scanVars, widgetVars>>

\* onNodesChange with the position change of a dragged node.
OnNodesChange ==
    /\ pc = "mounted"
    /\ variant # "FlowBasic"
    /\ \E k \in 1..Len(nodes), p \in DropPositions :
          nodes' = [nodes EXCEPT ![k].position = p]
    /\ UNCHANGED <<variant, resources, layoutSettings, selectedEdge, edges,
                   usedKeys, emitted, idx, pc>>
    /\ UNCHANGED <<scanVars, widgetVars>>

NextLife == SetResources \/ Remount \/ UpdateLayoutSettings \/ OnEdgeClick \/ OnNodesChange

SpecLife == InitLife /\ [][NextLife]_vars

-----------------------------------------------------------------------------
(* scanResources.  The account answers every call with the same items; a   *)
(* call either returns them or throws.  The scan is the sequence of its     *)
(* awaited calls: each statement names the try block it stands in, the      *)
(* resources pushed when it returns (up to the next await), the resources   *)
(* its response lists, and the DescribeServices calls it starts.            *)

regions ==
    <<"us-east-1", "us-east-2", "us-west-1", "us-west-2", "eu-west-1", "eu-west-2",
      "eu-central-1", "ap-southeast-1", "ap-southeast-2", "ap-northeast-1">>

ScanRegions == SubSeq(regions, 1, MaxRegions)

Pages == {"Home", "SimpleHome"}

\* The items a listing call returns: prefix1@region, prefix2@region, ...
Items(prefix, rg) == [i \in 1..MaxItems |-> prefix \o ToString(i) \o "@" \o rg]

Ids(rs) == {rs[i].id : i \in 1..Len(rs)}

Plain(type, serviceType, id, rg) ==
    [type |-> type, serviceType |-> serviceType, name |-> id, id |-> id, region |-> rg]

Related(type, serviceType, id, rg, rel) ==
    [type |-> type, serviceType |-> serviceType, name |-> id, id |-> id, region |-> rg,
     relationships |-> rel]

Await(block, call, pushes, lists, starts) ==
    [kind |-> "await", block |-> block, call |-> call, pushes |-> pushes,
     link |-> "", unlinked |-> pushes, lists |-> lists, starts |-> starts]

\* An awaited call whose resources name the load balancer `link` if
\* discoveredResources.find finds it, and are pushed `unlinked` if not.
AwaitLinked(block, call, pushes, link, unlinked, lists) ==
    [kind |-> "await", block |-> block, call |-> call, pushes |-> pushes,
     link |-> link, unlinked |-> unlinked, lists |-> lists, starts |-> {}]

PromiseAll(block, call, pushes) ==
    [kind |-> "all", block |-> block, call |-> call, pushes |-> pushes,
     link |-> "", unlinked |-> pushes, lists |-> {}, starts |-> {}]

\* The resources a statement pushes, given the resources discovered so far.
Pushed(st, found) ==
    IF st.link = "" \/ st.link \in Ids(found) THEN st.pushes ELSE st.unlinked

\* A try block with one call whose response's items are pushed.
Single(block, call, rg, r) ==
    <<Await(block \o "@" \o rg, call \o "@" \o rg, <<r>>, {r.id}, {})>>

ClusterResource(id, rg) == Plain("ECS Cluster", "ECS", id, rg)

ServiceResource(id, rg) ==
    Related("ECS Service", "ECS", id, rg, [volumes |-> <<"vol-" \o id>>])

\* The services of the account run in the first cluster of a region.
Services(cluster, rg) ==
    IF cluster = Items("cluster", rg)[1] THEN Items("svc", rg) ELSE <<>>

\* The ECS block: ListClusters, then per cluster ListServices and the
\* Promise.all of the DescribeServices calls.
EcsPlan(rg) ==
    LET clusters == Items("cluster", rg)
        block == "ECS@" \o rg
        next(i) == IF i < Len(clusters) THEN <<ClusterResource(clusters[i + 1], rg)>> ELSE <<>>
        first == IF Len(clusters) > 0 THEN <<ClusterResource(clusters[1], rg)>> ELSE <<>>
    IN  <<Await(block, "ListClusters@" \o rg, first,
                {clusters[i] : i \in 1..Len(clusters)}, {})>>
        \o Flatten([i \in 1..Len(clusters) |->
              <<Await(block, "ListServices:" \o clusters[i], <<>>, {},
                      {[cluster |-> clusters[i],
                        resource |-> ServiceResource(Services(clusters[i], rg)[k], rg)] :
                          k \in 1..Len(Services(clusters[i], rg))}),
                PromiseAll(block, "Promise.all:" \o clusters[i], next(i))>>])

LoadBalancerResource(id, rg) ==
    Related("Application Load Balancer", "ELB", id, rg,
            [securityGroups |-> <<"sg@" \o rg>>, dnsRecords |-> <<id \o ".elb.amazonaws.com">>])

ListenerResource(lb, rg) ==
    Related("ELB Listener", "ELB", "listener-" \o lb, rg, [loadBalancer |-> lb])

TargetGroupResource(lb, rg) ==
    Related("Target Group", "ELB", "tg-" \o lb, rg, [loadBalancer |-> lb])

\* The ELB block: DescribeLoadBalancers, then per load balancer
\* DescribeListeners (after which the load balancer and its listeners are
\* pushed) and DescribeTargetGroups.
ElbPlan(rg) ==
    LET lbs == Items("lb", rg)
        block == "ELB@" \o rg
    IN  <<Await(block, "DescribeLoadBalancers@" \o rg, <<>>,
                {lbs[i] : i \in 1..Len(lbs)}, {})>>
        \o Flatten([i \in 1..Len(lbs) |->
              <<Await(block, "DescribeListeners:" \o lbs[i],
                      <<LoadBalancerResource(lbs[i], rg), ListenerResource(lbs[i], rg)>>,
                      {"listener-" \o lbs[i]}, {}),
                Await(block, "DescribeTargetGroups:" \o lbs[i],
                      <<TargetGroupResource(lbs[i], rg)>>, {"tg-" \o lbs[i]}, {})>>])

\* cert.InUseBy names the region's first load balancer.
CertificateResource(id, rg, linked) ==
    Related("ACM Certificate", "ACM", id, rg,
            IF linked
            THEN [loadBalancer |-> Items("lb", rg)[1], dnsRecords |-> <<id>>]
            ELSE [dnsRecords |-> <<id>>])

\* The ACM block: ListCertificates, then DescribeCertificate per certificate.
AcmPlan(rg) ==
    LET certs == Items("cert", rg)
        block == "ACM@" \o rg
    IN  <<Await(block, "ListCertificates@" \o rg, <<>>,
                {certs[i] : i \in 1..Len(certs)}, {})>>
        \o [i \in 1..Len(certs) |->
              AwaitLinked(block, "DescribeCertificate:" \o certs[i],
                          <<CertificateResource(certs[i], rg, TRUE)>>, Items("lb", rg)[1],
                          <<CertificateResource(certs[i], rg, FALSE)>>, {certs[i]})]

\* The region's statements of page.tsx, in order.
RegionPlan(rg) ==
    Single("EC2", "DescribeInstances", rg,
           Related("EC2 Instance", "EC2", "i@" \o rg, rg, [volumes |-> <<"vol@" \o rg>>]))
    \o Single("EBS", "DescribeVolumes", rg, Plain("EBS Volume", "EC2", "vol@" \o rg, rg))
    \o Single("SG", "DescribeSecurityGroups", rg, Plain("Security Group", "EC2", "sg@" \o rg, rg))
    \o Single("RDS", "DescribeDBInstances", rg, Plain("RDS Instance", "RDS", "db@" \o rg, rg))
    \o EcsPlan(rg)
    \o ElbPlan(rg)
    \o AcmPlan(rg)
    \o Single("NAT", "DescribeNatGateways", rg, Plain("NAT Gateway", "EC2", "nat@" \o rg, rg))
    \o Single("IGW", "DescribeInternetGateways", rg,
              Plain("Internet Gateway", "EC2", "igw@" \o rg, rg))
    \o Single("ECR", "DescribeRepositories", rg, Plain("ECR Repository", "ECR", "repo@" \o rg, rg))
    \o Single("EventBridge", "ListRules", rg,
              Plain("EventBridge Rule", "EventBridge", "rule@" \o rg, rg))
    \o Single("Lambda", "ListFunctions", rg, Plain("Lambda Function", "Lambda", "fn@" \o rg, rg))

ZoneResource(id) == Plain("Route 53 Hosted Zone", "Route 53", id, "global")

\* The record's alias target is the first load balancer of the first region.
RecordResource(zone, linked) ==
    [type |-> "Route 53 Record", serviceType |-> "Route 53",
     name |-> "www." \o zone \o ".", id |-> zone \o "/www." \o zone \o "./A",
     region |-> "global",
     relationships |-> IF linked THEN [loadBalancer |-> Items("lb", regions[1])[1]] ELSE <<>>]

\* The Route 53 block: ListHostedZones, then ListResourceRecordSets per zone;
\* a zone is pushed before its records are listed.
Route53Plan ==
    LET zones == Items("zone", "global")
        next(i) == IF i < Len(zones) THEN <<ZoneResource(zones[i + 1])>> ELSE <<>>
    IN  <<Await("Route53", "ListHostedZones", <<ZoneResource(zones[1])>>,
                {zones[i] : i \in 1..Len(zones)}, {})>>
        \o [i \in 1..Len(zones) |->
              AwaitLinked("Route53", "ListResourceRecordSets:" \o zones[i],
                          <<RecordResource(zones[i], TRUE)>> \o next(i),
                          Items("lb", regions[1])[1],
                          <<RecordResource(zones[i], FALSE)>> \o next(i),
                          {RecordResource(zones[i], TRUE).id})]

GlobalPlan ==
    Single("S3", "ListBuckets", "global", Plain("S3 Bucket", "S3", "bucket", "global"))
    \o Single("IAM", "ListUsers", "global", Plain("IAM User", "IAM", "user", "global"))

\* A resource as the scan of EC2, RDS, S3 and IAM pushes it.
Simple(type, id, rg) == [type |-> type, name |-> id, id |-> id, region |-> rg]

\* The region's statements of that scan.
SimpleRegionPlan(rg) ==
    Single("EC2", "DescribeInstances", rg, Simple("EC2 Instance", "i@" \o rg, rg))
    \o Single("EBS", "DescribeVolumes", rg, Simple("EBS Volume", "vol@" \o rg, rg))
    \o Single("SG", "DescribeSecurityGroups", rg, Simple("Security Group", "sg@" \o rg, rg))
    \o Single("RDS", "DescribeDBInstances", rg, Simple("RDS Instance", "db@" \o rg, rg))

SimpleGlobalPlan ==
    Single("S3", "ListBuckets", "global", Simple("S3 Bucket", "bucket", "global"))
    \o Single("IAM", "ListUsers", "global", Simple("IAM User", "user", "global"))

\* The statements of scanResources of page.tsx.
HomePlan ==
    Flatten([r \in 1..Len(ScanRegions) |-> RegionPlan(ScanRegions[r])])
    \o Route53Plan \o GlobalPlan

\* The statements of the scanResources that scans EC2, RDS, S3 and IAM only.
SimpleHomePlan ==
    Flatten([r \in 1..Len(ScanRegions) |-> SimpleRegionPlan(ScanRegions[r])])
    \o SimpleGlobalPlan

Plan(pg) == IF pg = "Home" THEN HomePlan ELSE SimpleHomePlan

\* The first statement after the try block of statement i.
RECURSIVE AfterBlock(_, _, _)
AfterBlock(plan, block, i) ==
    IF i > Len(plan) \/ plan[i].block # block THEN i ELSE AfterBlock(plan, block, i + 1)

InitScan ==
    /\ variant = "Flow"
    /\ resources = <<>>
    /\ layoutSettings = DefaultLayoutSettings
    /\ selectedEdge = <<>>
    /\ nodes = <<>>
    /\ edges = <<>>
    /\ usedKeys = {}
    /\ emitted = <<>>
    /\ idx = 0
    /\ pc = "idle"
    /\ page \in Pages
    /\ loading = FALSE
    /\ error = FALSE
    /\ discoveredResources = <<>>
    /\ step = 0
    /\ inflight = {}
    /\ failures = 0
    /\ log = EmptyLog
    /\ scans = 0
    /\ WidgetsIdle

\* A scan button that is not disabled while loading.
ScanStartAnyTime ==
    /\ scans < MaxScans
    /\ scans' = scans + 1
    /\ loading' = TRUE
    /\ error' = FALSE
    /\ resources' = <<>>
    /\ discoveredResources' = <<>>
    /\ step' = 1
    /\ inflight' = {}
    /\ log' = EmptyLog
    /\ pc' = "scanning"
    /\ UNCHANGED <<widgetVars, builderVars, page, failures>>

\* The click on the scan button (disabled while loading): scanResources up
\* to its first await.  The calls of an earlier scan that are still in
\* flight push to that scan's array, which nothing reads any more.
ScanStart ==
    /\ ~loading
    /\ scans < MaxScans
    /\ scans' = scans + 1
    /\ loading' = TRUE
    /\ error' = FALSE
    /\ resources' = <<>>
    /\ discoveredResources' = <<>>
    /\ step' = 1
    /\ inflight' = {}
    /\ log' = EmptyLog
    /\ pc' = "scanning"
    /\ UNCHANGED <<widgetVars, builderVars, page, failures>>

\* The awaited call returns: its resources are pushed, up to the next await.
CallReturns ==
    /\ pc = "scanning"
    /\ step <= Len(Plan(page))
    /\ LET st == Plan(page)[step]
       IN  /\ st.kind = "await"
           /\ discoveredResources' = discoveredResources \o Pushed(st, discoveredResources)
           /\ inflight' = inflight \cup st.starts
           /\ log' = [log EXCEPT !.called = @ \cup {st.call}, !.succeeded = @ \cup {st.call}]
    /\ step' = step + 1
    /\ UNCHANGED <<widgetVars, builderVars, resources, pc, page, loading, error, failures, scans>>

\* The awaited call throws: the catch of its try block logs the error and
\* the scan goes on after the block.
CallThrows ==
    /\ pc = "scanning"
    /\ failures < MaxFailures
    /\ step <= Len(Plan(page))
    /\ LET plan == Plan(page)
           st == plan[step]
       IN  /\ st.kind = "await"
           /\ step' = AfterBlock(plan, st.block, step)
           /\ log' = [log EXCEPT !.called = @ \cup {st.call},
                                 !.failedBlocks = @ \cup {st.block}]
    /\ failures' = failures + 1
    /\ UNCHANGED <<widgetVars, builderVars, resources, pc, page, loading, error, discoveredResources,
                   inflight, scans>>

\* One DescribeServices call returns and its callback pushes the service,
\* also when the scan has gone on or has ended: the resources state is the
\* array the callback pushes to.
ServiceReturns ==
    /\ \E c \in inflight :
          /\ inflight' = inflight \ {c}
          /\ discoveredResources' = Append(discoveredResources, c.resource)
          /\ resources' = IF pc = "done" THEN Append(resources, c.resource) ELSE resources
          /\ log' = [log EXCEPT !.settled = @ \cup {c.resource.id}]
    /\ UNCHANGED <<widgetVars, builderVars, pc, page, loading, error, step, failures, scans>>

\* One DescribeServices call throws: Promise.all rejects if the scan still
\* awaits it, and the catch of the ECS block runs.
ServiceThrows ==
    /\ failures < MaxFailures
    /\ \E c \in inflight :
          LET plan == Plan(page)
              awaited == /\ pc = "scanning"
                         /\ step <= Len(plan)
                         /\ plan[step].call = "Promise.all:" \o c.cluster
          IN  /\ inflight' = inflight \ {c}
              /\ step' = IF awaited THEN AfterBlock(plan, plan[step].block, step) ELSE step
              /\ log' = IF awaited
                        THEN [log EXCEPT !.failedBlocks = @ \cup {plan[step].block}]
                        ELSE log
    /\ failures' = failures + 1
    /\ UNCHANGED <<widgetVars, builderVars, resources, pc, page, loading, error, discoveredResources, scans>>

\* Promise.all resolves once every DescribeServices call of the cluster has
\* returned.
PromiseAllResolves ==
    /\ pc = "scanning"
    /\ step <= Len(Plan(page))
    /\ LET st == Plan(page)[step]
       IN  /\ st.kind = "all"
           /\ \A c \in inflight : "Promise.all:" \o c.cluster # st.call
           /\ discoveredResources' = discoveredResources \o st.pushes
    /\ step' = step + 1
    /\ UNCHANGED <<widgetVars, builderVars, resources, pc, page, loading, error, inflight, failures,
                   log, scans>>

\* setResources(discoveredResources), then setLoading(false) in finally.
ScanEnd ==
    /\ pc = "scanning"
    /\ step = Len(Plan(page)) + 1
    /\ resources' = discoveredResources
    /\ loading' = FALSE
    /\ pc' = "done"
    /\ UNCHANGED <<widgetVars, builderVars, page, error, discoveredResources, step, inflight, failures,
                   log, scans>>

\* Statement i is the first of its try block: the client of the block is
\* constructed before it, outside every inner try.
BlockStart(plan, i) == IF i = 1 THEN TRUE ELSE plan[i].block # plan[i - 1].block

\* A catch block of the scan that calls setResources before setError.
ClientThrowsShowsFound ==
    /\ pc = "scanning"
    /\ step <= Len(Plan(page))
    /\ BlockStart(Plan(page), step)
    /\ resources' = discoveredResources
    /\ error' = TRUE
    /\ loading' = FALSE
    /\ pc' = "failed"
    /\ UNCHANGED <<widgetVars, builderVars, page, discoveredResources, step, inflight,
                   failures, log, scans>>

\* A statement outside the inner try blocks throws (the construction of a
\* client): the outer catch calls setError, setResources is skipped, and
\* finally calls setLoading(false).
ClientThrows ==
    /\ pc = "scanning"
    /\ step <= Len(Plan(page))
    /\ BlockStart(Plan(page), step)
    /\ error' = TRUE
    /\ loading' = FALSE
    /\ pc' = "failed"
    /\ UNCHANGED <<widgetVars, builderVars, page, resources, discoveredResources, step,
                   inflight, failures, log, scans>>

NextScan ==
    \/ ScanStart
    \/ CallReturns
    \/ CallThrows
    \/ ServiceReturns
    \/ ServiceThrows
    \/ PromiseAllResolves
    \/ ClientThrows
    \/ ScanEnd

SpecScan == InitScan /\ [][NextScan]_vars

\* The page before the last scan of a run.  A scan starts by clearing the
\* state, so the scans before it have left nothing behind.
InitScanLast ==
    /\ BuildersIdle
    /\ WidgetsIdle
    /\ page \in Pages
    /\ loading = FALSE
    /\ error = FALSE
    /\ discoveredResources = <<>>
    /\ step = 0
    /\ inflight = {}
    /\ failures = 0
    /\ log = EmptyLog
    /\ scans = MaxScans - 1

\* Every call that has been made returns or throws, and the scan's own
\* steps are taken.
SpecScanLive ==
    /\ InitScanLast
    /\ [][NextScan]_vars
    /\ WF_vars(CallReturns \/ CallThrows)
    /\ WF_vars(ServiceReturns \/ ServiceThrows)
    /\ WF_vars(PromiseAllResolves)
    /\ WF_vars(ScanEnd)

-----------------------------------------------------------------------------
(* The export ref chain: DynamicResourceMapWrapper renders                 *)
(* DynamicResourceMapLoader, which renders ResourceMap through             *)
(* next/dynamic, which renders Flow.  `chain` holds the state and the refs *)
(* of the four components, the handle the wrapper has published to its     *)
(* parent, the effects that are scheduled, and the outcome of the latest   *)
(* export call.  An action is a handler or an effect together with the     *)
(* render and commit it causes.                                            *)

ExportKinds == {"exportToDrawio", "exportToPng"}

NoCall == [kind |-> "none", ready |-> FALSE, reached |-> "none", exported |-> FALSE,
           errors |-> 0, threw |-> FALSE]

\* The closure of the handle useImperativeHandle creates in the wrapper.
WrapperHandle(c) ==
    [isMounted |-> c.isMounted, isLoaded |-> c.isLoaded,
     hasExportMethods |-> c.hasExportMethods]

\* const isReady = isMounted && isLoaded && hasExportMethods
IsReady(h) == h.isMounted /\ h.isLoaded /\ h.hasExportMethods

\* A render of the wrapper: the handle is created from the rendered state,
\* and the monitor effect is scheduled when loaderRef.current, as read
\* during the render, differs from the one of the render before.
WrapperRender(c) ==
    [c EXCEPT !.handle = WrapperHandle(c),
              !.monitorPending = @ \/ c.loaderHandle # c.monitorDep,
              !.monitorDep = c.loaderHandle]

\* A render and commit of the loader: it publishes a new handle
\* (loaderRef.current) at its mount and whenever isMapReady or mapRef.current,
\* as read during the render, has changed.  loaderHandle counts the handles,
\* 0 for a null ref.
LoaderRender(c) ==
    IF c.loaderHandle = 0 \/ c.loaderDeps # <<c.isMapReady, c.mapRef>>
    THEN [c EXCEPT !.loaderHandle = @ + 1, !.loaderDeps = <<c.isMapReady, c.mapRef>>]
    ELSE c

\* A render of the wrapper and of the loader below it (the loader is
\* rendered only once isMounted is true), and the commit.
Rerender(c) ==
    LET w == WrapperRender(c)
    IN  IF w.isMounted THEN LoaderRender(w) ELSE w

\* An export call in which the loader calls mapRef.current without its guard.
ExportLoaderUnguarded(c, kind) ==
    IF ~IsReady(c.handle)
    THEN [kind |-> kind, ready |-> FALSE, reached |-> "wrapper", exported |-> FALSE,
          errors |-> 1, threw |-> FALSE]
    ELSE [kind |-> kind, ready |-> TRUE, reached |-> IF c.mapRef THEN "flow" ELSE "loader",
          exported |-> c.mapRef, errors |-> 0, threw |-> ~c.mapRef]

\* exportToDrawio / exportToPng called on the wrapper's handle: the level
\* the call reaches, whether Flow exported, the errors logged on the way.
Export(c, kind) ==
    LET call(reached, exported, errors) ==
            [kind |-> kind, ready |-> IsReady(c.handle), reached |-> reached,
             exported |-> exported, errors |-> errors, threw |-> FALSE]
    IN  CASE ~IsReady(c.handle) -> call("wrapper", FALSE, 1)
          [] c.loaderHandle = 0 -> call("wrapper", FALSE, 0)
          [] ~c.mapRef -> call("loader", FALSE, 1)
          [] ~c.flowHandle -> call("map", FALSE, 1)
          [] kind = "exportToDrawio" /\ ~c.reactFlowInstance -> call("flow", FALSE, 1)
          [] kind = "exportToPng" /\ ~c.flowElement -> call("flow", FALSE, 1)
          [] OTHER -> call("flow", TRUE, 0)

\* The wrapper after its first render and commit: it rendered null, its
\* handle is the stub, the monitor effect has found no loader, and the mount
\* effect is scheduled.
InitChain ==
    /\ BuildersIdle
    /\ ScanIdle
    /\ store = <<>>
    /\ gif = <<>>
    /\ chain = [isMounted |-> FALSE, isLoaded |-> FALSE, hasExportMethods |-> FALSE,
                handle |-> [isMounted |-> FALSE, isLoaded |-> FALSE,
                            hasExportMethods |-> FALSE],
                mountPending |-> TRUE, monitorPending |-> FALSE, monitorDep |-> 0,
                loaderHandle |-> 0, loaderDeps |-> <<FALSE, FALSE>>, isMapReady |-> FALSE,
                moduleLoaded |-> FALSE, mapRef |-> FALSE, flowHandle |-> FALSE,
                reactFlowInstance |-> FALSE, flowElement |-> FALSE,
                isInitialized |-> FALSE, initFired |-> FALSE,
                calls |-> 0, exports |-> 0, last |-> NoCall]

ChainUnchanged == UNCHANGED <<variant, resources, layoutSettings, selectedEdge, nodes, edges,
                              usedKeys, emitted, idx, pc, scanVars, store, gif>>

\* useEffect(() => setIsMounted(true), []) and the render it causes, in
\* which the loader is mounted.
WrapperMountEffect ==
    /\ chain.mountPending
    /\ chain' = Rerender([chain EXCEPT !.mountPending = FALSE, !.isMounted = TRUE])
    /\ ChainUnchanged

\* The import of ./ResourceMap resolves: ResourceMap and Flow are mounted.
\* Flow's handle is attached to ResourceMap's flowRef, the div to Flow's
\* flowRef, useReactFlow() gives the instance, and Flow's effect sets
\* isInitialized.  Whether the component next/dynamic returns hands the ref
\* it is given down to ResourceMap depends on the build (a function
\* component drops a ref before React 19): mapRef.current stays null or
\* becomes ResourceMap's handle.
MapModuleLoaded ==
    /\ chain.isMounted
    /\ ~chain.moduleLoaded
    /\ \E attached \in BOOLEAN :
          chain' = [chain EXCEPT !.moduleLoaded = TRUE, !.mapRef = attached,
                                 !.flowHandle = TRUE, !.reactFlowInstance = TRUE,
                                 !.flowElement = TRUE, !.isInitialized = TRUE]
    /\ ChainUnchanged

\* ReactFlow's onInit: setIsInitialized(true) and onLoad, which is the
\* loader's handleMapLoad (setIsMapReady(true)) and, through it, the
\* wrapper's handleLoad (setIsLoaded(true)); then the render of the batch.
OnInit ==
    /\ chain.moduleLoaded
    /\ ~chain.initFired
    /\ chain' = Rerender([chain EXCEPT !.initFired = TRUE, !.isInitialized = TRUE,
                                       !.isMapReady = TRUE, !.isLoaded = TRUE])
    /\ ChainUnchanged

\* The monitor effect: setHasExportMethods(!!(loaderRef.current?.exportToDrawio
\* && loaderRef.current?.exportToPng)), and the render if the state changed.
WrapperCheckMethods ==
    /\ chain.monitorPending
    /\ LET hasRequiredMethods == chain.loaderHandle > 0
           c == [chain EXCEPT !.monitorPending = FALSE,
                              !.hasExportMethods = hasRequiredMethods]
       IN  chain' = IF hasRequiredMethods # chain.hasExportMethods THEN Rerender(c) ELSE c
    /\ ChainUnchanged

\* The parent renders the wrapper again (another resources prop).
ParentRerender ==
    /\ ~chain.mountPending
    /\ chain' = Rerender(chain)
    /\ chain' # chain
    /\ ChainUnchanged

\* The parent calls exportToDrawio or exportToPng on the handle it holds.
ExportCall ==
    /\ chain.calls < MaxExportCalls
    /\ \E kind \in ExportKinds :
          LET out == Export(chain, kind)
          IN  chain' = [chain EXCEPT !.calls = @ + 1,
                                     !.exports = IF out.exported THEN @ + 1 ELSE @,
                                     !.last = out]
    /\ ChainUnchanged

NextChain ==
    \/ WrapperMountEffect
    \/ MapModuleLoaded
    \/ OnInit
    \/ WrapperCheckMethods
    \/ ParentRerender
    \/ ExportCall

SpecChain == InitChain /\ [][NextChain]_vars

\* React runs every scheduled effect.
SpecChainLive ==
    /\ SpecChain
    /\ WF_vars(WrapperMountEffect)
    /\ WF_vars(WrapperCheckMethods)

-----------------------------------------------------------------------------
(* POST /api/report.  `store` holds the reports collection, the response   *)
(* to the latest request and, when that response is a 200, the report it   *)
(* answers and the _id given to it.  A stored                              *)
(* report is [id, company, department, issue, email]; department is <<>>   *)
(* when the document has no such field and <<d>> otherwise; an absent      *)
(* email is the empty string (both are falsy and both are filtered out).   *)

Companies == {"", "acme", "Ac", "("}
Departments == {<<>>, <<"">>, <<"hr">>}
Issues == {"", "x"}
Emails == {"", "a@x.org", "b@x.org"}

\* The bodies a client can send.
Submissions ==
    [company : Companies, department : Departments, issue : Issues, email : Emails]

LowerChar(ch) ==
    CASE ch = "A" -> "a"
      [] ch = "H" -> "h"
      [] ch = "R" -> "r"
      [] OTHER -> ch

RECURSIVE Lower(_)
Lower(str) ==
    IF Len(str) = 0 THEN ""
    ELSE LowerChar(SubSeq(str, 1, 1)) \o Lower(SubSeq(str, 2, Len(str)))

\* new RegExp(pattern, 'i') throws a SyntaxError for these patterns.
InvalidPattern(pattern) == pattern = "("

\* { $regex: new RegExp(pattern, 'i') } on a string field, for patterns
\* without metacharacters: the value contains the pattern, case ignored.
RegexMatches(pattern, value) ==
    \/ pattern = ""
    \/ \E i \in 1..Len(value) :
          /\ i + Len(pattern) - 1 <= Len(value)
          /\ Lower(SubSeq(value, i, i + Len(pattern) - 1)) = Lower(pattern)

\* report.department ? { $regex: ... } : null ; null matches the documents
\* that have no department.
DepartmentMatches(report, r) ==
    IF report.department # <<>> /\ report.department[1] # ""
    THEN r.department # <<>> /\ RegexMatches(report.department[1], r.department[1])
    ELSE r.department = <<>>

\* Report.find({company, department, _id: {$ne: newReport._id}})
SimilarReports(reports, report, newId) ==
    SelectSeq(reports, LAMBDA r : /\ RegexMatches(report.company, r.company)
                                  /\ DepartmentMatches(report, r)
                                  /\ r.id # newId)

\* similarReports.filter(r => r.email).map(r => r.email)
EmailsOf(similar) ==
    LET withEmail == SelectSeq(similar, LAMBDA r : r.email # "")
    IN  [i \in 1..Len(withEmail) |-> withEmail[i].email]

\* A response that gives the emails to every reporter.
RelatedEmailsUngated(report, similar) == EmailsOf(similar)

\* relatedEmails: report.email ? relatedEmails : []
RelatedEmails(report, similar) ==
    IF report.email # "" THEN EmailsOf(similar) ELSE <<>>

FailedResponse == [status |-> 500, error |-> "Failed to process report"]

NoRequest == [company |-> "", department |-> <<>>, issue |-> "", email |-> ""]

InitStore ==
    /\ BuildersIdle
    /\ ScanIdle
    /\ chain = <<>>
    /\ gif = <<>>
    /\ store = [reports |-> <<>>, report |-> NoRequest, newId |-> 0,
                response |-> [status |-> 0]]

StoreUnchanged == UNCHANGED <<variant, resources, layoutSettings, selectedEdge, nodes, edges,
                              usedKeys, emitted, idx, pc, scanVars, chain, gif>>

\* POST with a body that Report.create rejects (company and issue are
\* required), or with the database unreachable: nothing is stored and the
\* catch block answers 500.
PostRejected ==
    /\ \E report \in Submissions, connected \in BOOLEAN :
          /\ ~connected \/ report.company = "" \/ report.issue = ""
          /\ store' = [store EXCEPT !.report = NoRequest, !.newId = 0,
                                    !.response = FailedResponse]
    /\ StoreUnchanged

\* POST with a body that is stored but whose company (or department) is not
\* a regular expression: the report is created, new RegExp throws, and the
\* catch block answers 500.
PostStoredThenFailed ==
    /\ Len(store.reports) < MaxReports
    /\ \E report \in Submissions :
          /\ report.company # "" /\ report.issue # ""
          /\ InvalidPattern(report.company)
          /\ LET newId == Len(store.reports) + 1
             IN  store' = [store EXCEPT
                    !.reports = Append(@, [id |-> newId] @@ report),
                    !.report = NoRequest, !.newId = 0, !.response = FailedResponse]
    /\ StoreUnchanged

\* POST with a valid body: create, find, answer.
PostAccepted ==
    /\ Len(store.reports) < MaxReports
    /\ \E report \in Submissions :
          /\ report.company # "" /\ report.issue # ""
          /\ ~InvalidPattern(report.company)
          /\ LET newId == Len(store.reports) + 1
                 reports == Append(store.reports, [id |-> newId] @@ report)
                 similarReports == SimilarReports(reports, report, newId)
             IN  store' = [store EXCEPT
                    !.reports = reports, !.report = report, !.newId = newId,
                    !.response = [status |-> 200, success |-> TRUE,
                                  similarReports |-> Len(similarReports),
                                  relatedEmails |-> RelatedEmails(report, similarReports)]]
    /\ StoreUnchanged

NextStore ==
    \/ PostRejected
    \/ PostStoredThenFailed
    \/ PostAccepted

SpecStore == InitStore /\ [][NextStore]_vars

-----------------------------------------------------------------------------
(* The GIF recorder of the night-sky Scene.  `gif` holds the isRecording   *)
(* state, the values of isRecording that the running animate loops have    *)
(* closed over, whether gifRef.current holds an encoder, frameCountRef,    *)
(* the frames added to and the render() calls made on the current encoder, *)
(* whether the encoder is rendering, and the captureFrame calls that wait  *)
(* for html2canvas.                                                        *)

\* if (frameCountRef.current >= 50) and frameCountRef.current < 50
FrameLimit == 50

\* The Scene after its mount: the effect has started one animate loop, which
\* has closed over isRecording = false.
InitGif ==
    /\ BuildersIdle
    /\ ScanIdle
    /\ chain = <<>>
    /\ store = <<>>
    /\ gif = [isRecording |-> FALSE, loops |-> {FALSE}, encoder |-> FALSE,
              frameCount |-> 0, frames |-> 0, renders |-> 0, running |-> FALSE,
              pending |-> 0, recordings |-> 0]

GifUnchanged == UNCHANGED <<variant, resources, layoutSettings, selectedEdge, nodes, edges,
                            usedKeys, emitted, idx, pc, scanVars, chain, store>>

\* The click on "Record GIF", shown while isRecording is false.
StartRecording ==
    /\ ~gif.isRecording
    /\ gif.recordings < MaxRecordings
    /\ gif' = [gif EXCEPT !.isRecording = TRUE, !.frameCount = 0, !.encoder = TRUE,
                          !.frames = 0, !.renders = 0, !.running = FALSE,
                          !.recordings = @ + 1]
    /\ GifUnchanged

\* The location or dateTime prop changes: the effect runs again and starts
\* another animate loop, which closes over the isRecording of this render.
\* The cleanup does not cancel the loop that is running.
EffectReruns ==
    /\ gif.isRecording \notin gif.loops
    /\ gif' = [gif EXCEPT !.loops = @ \cup {gif.isRecording}]
    /\ GifUnchanged

\* An animation frame of a loop that closed over isRecording = true:
\* captureFrame is started and waits for html2canvas.
AnimationFrame ==
    /\ TRUE \in gif.loops
    /\ gif.encoder
    /\ gif.frameCount < FrameLimit
    /\ gif.pending < MaxPending
    /\ gif' = [gif EXCEPT !.pending = @ + 1]
    /\ GifUnchanged

\* html2canvas completes: the rest of captureFrame.
CaptureCompletes ==
    /\ gif.pending > 0
    /\ LET render == gif.frameCount + 1 >= FrameLimit
       IN  gif' = [gif EXCEPT !.pending = @ - 1, !.frames = @ + 1, !.frameCount = @ + 1,
                              !.renders = IF render THEN @ + 1 ELSE @,
                              !.running = @ \/ render]
    /\ GifUnchanged

\* The encoder's 'finished' event.
GifFinished ==
    /\ gif.running
    /\ gif' = [gif EXCEPT !.running = FALSE, !.isRecording = FALSE]
    /\ GifUnchanged

NextGif ==
    \/ StartRecording
    \/ EffectReruns
    \/ AnimationFrame
    \/ CaptureCompletes
    \/ GifFinished

SpecGif == InitGif /\ [][NextGif]_vars

-----------------------------------------------------------------------------
(* Properties of createNodes (checked under SpecNodes).                    *)

NodeIndex(id) == CHOOSE j \in 1..Len(nodes) : nodes[j].id = id

RegionRank(rs, region) ==
    LET keys == DistinctInOrder([i \in 1..Len(rs) |-> rs[i].region])
    IN  CHOOSE g \in 1..Len(keys) : keys[g] = region

\* C1: for every resource list and every layout type, createNodes returns
\* exactly one node per input resource.
C1_OneNodePerResource ==
    pc # "input" =>
        /\ pc # "nodesThrew"
        /\ Len(nodes) = Len(resources)
        /\ \A i \in 1..Len(resources) :
              Cardinality({j \in 1..Len(nodes) : nodes[j].id = resources[i].id}) = 1

\* C3: in the regional layout every node of a later region lies below every
\* node of an earlier region, whatever the group sizes and verticalSpacing.
C3_RegionBandsDisjoint ==
    (variant = "Flow" /\ layoutSettings.hierarchyType = "regional" /\ pc = "nodes") =>
        \A i, j \in 1..Len(resources) :
            RegionRank(resources, resources[i].region) < RegionRank(resources, resources[j].region)
            => nodes[NodeIndex(resources[i].id)].position.y
                 < nodes[NodeIndex(resources[j].id)].position.y

-----------------------------------------------------------------------------
(* Properties of createEdges (checked under SpecEdges).                    *)

Labels(es) == {es[i].label : i \in 1..Len(es)}

\* C2: no exception propagates out of createNodes or createEdges, also for
\* a resource without relationships or without a name.
C2_BuilderNeverThrows == pc \notin {"nodesThrew", "edgesThrew"}

TypeKeyedLabels(v, type) ==
    CASE v = "Flow" -> {}
      [] type = "Route 53 Record" -> {"DNS Alias", "Record"}
      [] v = "FlowBasic" -> {}
      [] type = "Application Load Balancer" -> {"Internet Access"}
      [] type = "NAT Gateway" -> {"NAT Access", "Internet Access"}
      [] type = "ECS Service" -> {"Service Registration", "Service"}
      [] type = "EventBridge Rule" -> {"Trigger"}
      [] type = "Lambda Function" -> {"Integration"}
      [] OTHER -> {}

C5_EdgeIdsUnique ==
    pc = "done" => \A i, j \in 1..Len(edges) : i # j => edges[i].id # edges[j].id

\* C8: a resource whose securityGroups lists k distinct ids gets exactly k
\* edges labelled "Security Group", from its id to each listed id.
C8_SecurityGroupEdges ==
    /\ (pc = "edges" /\ idx >= 1) =>
          LET r == resources[idx]
              listed == {ListField(r, "securityGroups")[k] :
                            k \in 1..Len(ListField(r, "securityGroups"))}
              sg == SelectSeq(emitted, LAMBDA e : e.label = "Security Group")
          IN  /\ Len(sg) = Cardinality(listed)
              /\ \A k \in 1..Len(sg) : sg[k].source = r.id
              /\ {sg[k].target : k \in 1..Len(sg)} = listed
    /\ pc = "edgesThrew" =>
          \A i \in 1..Len(resources) : ListField(resources[i], "securityGroups") = <<>>

\* The match of C9: equal after the trailing dot is stripped from both, or
\* one a suffix of the other.
ClaimedDnsMatch(record, lb) ==
    /\ "name" \in DOMAIN record
    /\ \E k \in 1..Len(ListField(lb, "dnsRecords")) :
          LET a == StripTrailingDot(record.name)
              b == StripTrailingDot(ListField(lb, "dnsRecords")[k])
          IN  a = b \/ EndsWith(a, b) \/ EndsWith(b, a)

\* C9: a "DNS Alias" edge links a Route 53 Record to an Application Load
\* Balancer if and only if a dnsRecords entry matches the record's name.
C9_DnsAliasIffMatch ==
    pc \in {"done", "edgesThrew"} =>
        \A i, j \in 1..Len(resources) :
            (resources[i].type = "Route 53 Record"
             /\ resources[j].type = "Application Load Balancer")
            => ((\E k \in 1..Len(edges) :
                    /\ edges[k].label = "DNS Alias"
                    /\ edges[k].source = resources[i].id
                    /\ edges[k].target = resources[j].id)
                <=> ClaimedDnsMatch(resources[i], resources[j]))

-----------------------------------------------------------------------------
(* Properties of the mounted component (checked under SpecLife).           *)

\* C6: after any change of the resources list or of the layout settings the
\* nodes handed to the renderer are createNodes of the new inputs and the
\* edges are createEdges of the new resources.
C6_RebuiltOnInputChange ==
    [][(resources' # resources \/ layoutSettings' # layoutSettings) =>
          /\ pc' = "mounted"
          /\ nodes' = createNodes(variant', resources', layoutSettings').nodes
          /\ edges' = createEdges(variant', resources', selectedEdge').edges]_vars

-----------------------------------------------------------------------------
(* Properties of scanResources (checked under SpecScan).                   *)

\* C7: a call that throws does not abort the scan: the calls of every other
\* try block are still made, and the resources listed by the calls that
\* returned are all in the final result.
C7_FailedCallIsolated ==
    pc = "done" =>
        LET plan == Plan(page)
        IN  \A i \in 1..Len(plan) :
               /\ (plan[i].kind = "await" /\ plan[i].block \notin log.failedBlocks)
                     => plan[i].call \in log.called
               /\ plan[i].call \in log.succeeded => plan[i].lists \subseteq Ids(resources)

\* ---------------------------------------------------------------------------
\* The identity of the edges of a graph: everything but the stroke colour.
EdgeIdentity(es) ==
    [k \in 1..Len(es) |->
        [id |-> es[k].id, source |-> es[k].source, target |-> es[k].target,
         label |-> es[k].label]]

\* C11: for every resource list and every selectedEdge (null, the id of an
\* edge, an id of no edge) the finished build has the edges of the build with
\* nothing selected, with the same id, source, target and label in the same
\* order, and the stroke colour of an edge differs from the unselected build
\* exactly when the edge's id equals selectedEdge.
C11_SelectionChangesStrokeOnly ==
    pc = "done" =>
        LET plain == createEdges(variant, resources, <<>>).edges
        IN  /\ EdgeIdentity(edges) = EdgeIdentity(plain)
            /\ \A k \in 1..Len(edges) :
                  (edges[k].stroke # plain[k].stroke) <=> (selectedEdge = <<edges[k].id>>)

C11_Witness ==
    /\ pc = "done"
    /\ variant = "FlowWithDownload"
    /\ Len(edges) >= 2
    /\ \E k \in 1..Len(edges) : selectedEdge = <<edges[k].id>> /\ edges[k].stroke = "#ef4444"
    /\ \E k \in 1..Len(edges) : selectedEdge # <<edges[k].id>> /\ edges[k].stroke = "#94a3b8"

\* The ids a resource's relationships name under the rules that both
\* components have: its security groups and, for a target group, its load
\* balancer.
ReferencedIds(r) ==
    {ListField(r, "securityGroups")[k] : k \in 1..Len(ListField(r, "securityGroups"))}
    \cup (IF r.type = "Target Group" /\ StrField(r, "loadBalancer") # ""
          THEN {StrField(r, "loadBalancer")} ELSE {})

\* C12: a relationship that names an id of no supplied resource is not an
\* error and is not filtered: the build does not throw and its result has an
\* edge between the resource and the absent id.
C12_DanglingEdgesEmitted ==
    pc \in {"done", "edgesThrew"} =>
        \A i \in 1..Len(resources) :
            \A x \in ReferencedIds(resources[i]) \ {resources[j].id : j \in 1..Len(resources)} :
                /\ pc = "done"
                /\ \E k \in 1..Len(edges) :
                      {edges[k].source, edges[k].target} = {resources[i].id, x}

\* C13: for an empty resources array, under every layout type, createNodes
\* returns no nodes and createEdges returns no edges, and neither throws.
C13_EmptyResourcesEmptyGraph ==
    (resources = <<>> /\ pc # "input") =>
        /\ pc # "nodesThrew"
        /\ nodes = <<>>
        /\ LET es == createEdges(variant, resources, selectedEdge)
           IN  ~es.threw /\ es.edges = <<>>

\* The tier the component's static table assigns to a service type.
Tier(v, serviceType) ==
    IF v = "Flow" THEN FlowHierarchyLevel(serviceType) ELSE DownloadHierarchyLevel(serviceType)

\* C14: in the layered layout every resource has a node, and two resources
\* are on the same row (equal y) exactly when the table assigns their
\* service types the same tier, an absent service type counting as tier 0.
C14_LayeredOneRowPerTier ==
    (pc # "input"
     /\ \/ variant = "Flow" /\ layoutSettings.hierarchyType = "layered"
        \/ variant = "FlowWithDownload") =>
        /\ pc = "nodes"
        /\ \A i \in 1..Len(resources) : \E k \in 1..Len(nodes) : nodes[k].id = resources[i].id
        /\ \A i, j \in 1..Len(resources) :
              (Tier(variant, resources[i].serviceType) = Tier(variant, resources[j].serviceType))
              <=> (nodes[NodeIndex(resources[i].id)].position.y
                     = nodes[NodeIndex(resources[j].id)].position.y)

\* C24: in the layered layout no two nodes have the same (x, y) position,
\* resources of two service types of one tier and resources of an absent
\* service type together with tier-0 resources included.
C24_LayeredDistinctPositions ==
    (pc # "input"
     /\ \/ variant = "Flow" /\ layoutSettings.hierarchyType = "layered"
        \/ variant = "FlowWithDownload") =>
        \A i, j \in 1..Len(nodes) :
            i # j => nodes[i].position # nodes[j].position

\* C15: in the circular layout with n resources the node of the resource at
\* input index i lies on the circle of radius max(50*n, 400) about the origin
\* at angle i*(2*pi/n): its angle is i of n equal steps of the full turn, so
\* consecutive nodes are one step apart.
C15_CircularPlacement ==
    (variant = "Flow" /\ layoutSettings.hierarchyType = "circular" /\ pc # "input") =>
        LET n == Len(resources)
        IN  /\ pc = "nodes"
            /\ Len(nodes) = n
            /\ \A i \in 1..n :
                  /\ nodes[i].id = resources[i].id
                  /\ nodes[i].position.radius = (IF 50 * n > 400 THEN 50 * n ELSE 400)
                  /\ nodes[i].position.index * n = (i - 1) * nodes[i].position.count
            /\ \A i \in 1..(n - 1) :
                  (nodes[i + 1].position.index - nodes[i].position.index) * n
                      = nodes[i].position.count

C15_Witness ==
    /\ variant = "Flow" /\ layoutSettings.hierarchyType = "circular" /\ pc = "nodes"
    /\ Len(nodes) >= 9
    /\ nodes[9].position.radius > 400
    /\ nodes[9].position.index = 8

\* The base strings createUniqueEdgeId is called with during one build of
\* Flow, in call order.
Bases(rs) ==
    LET cands == Flatten([i \in 1..Len(rs) |-> FlowCandidates(rs[i])])
    IN  [k \in 1..Len(cands) |-> cands[k].base]

\* C16: the k-th call of createUniqueEdgeId in a build returns its base when
\* no earlier call of the build returned it, and otherwise base-m for the
\* smallest m >= 1 such that base-m was not returned earlier; no id is
\* returned twice.
C16_UniqueEdgeId ==
    (variant = "Flow" /\ pc = "done") =>
        LET bases == Bases(resources)
            before(k) == {edges[j].id : j \in 1..(k - 1)}
            numbered(k, m) == bases[k] \o "-" \o ToString(m)
        IN  /\ Len(edges) = Len(bases)
            /\ \A k \in 1..Len(edges) :
                  /\ edges[k].id \notin before(k)
                  /\ IF bases[k] \notin before(k)
                     THEN edges[k].id = bases[k]
                     ELSE \E m \in 1..k :
                             /\ edges[k].id = numbered(k, m)
                             /\ \A l \in 1..(m - 1) : numbered(k, l) \in before(k)

C16_Witness ==
    /\ variant = "Flow" /\ pc = "done"
    /\ \E j, k \in 1..Len(edges) :
          /\ j < k
          /\ Bases(resources)[j] = "i-v-1" /\ edges[j].id = "i-v-1"
          /\ Bases(resources)[k] = "i-v" /\ edges[k].id = "i-v-2"

\* C17: for every "Target Group" resource whose relationships.loadBalancer
\* is L the build's result has an edge labelled "Target Group" from L to the
\* target group's id.
C17_TargetGroupEdgeFromLoadBalancer ==
    pc \in {"done", "edgesThrew"} =>
        \A i \in 1..Len(resources) :
            (resources[i].type = "Target Group" /\ StrField(resources[i], "loadBalancer") # "")
            => \E k \in 1..Len(edges) :
                  /\ edges[k].label = "Target Group"
                  /\ edges[k].source = StrField(resources[i], "loadBalancer")
                  /\ edges[k].target = resources[i].id

\* The ids of the hosted zones of the account.
ZoneIds == {ZoneZ1.id, ZoneZ12.id}

\* The zone a scanned record was listed from: its id is zoneId/name/type.
ListedFrom(record) == CHOOSE z \in ZoneIds : StartsWith(record.id, z \o "/")

\* C18: a "Route 53 Record" gets at most one edge labelled "Record"; the
\* edge comes from a supplied "Route 53 Hosted Zone" whose id is a prefix of
\* the record's id, and that zone is the one the record was listed from,
\* also when the id of one zone is a prefix of the id of another.
C18_RecordEdgeFromOwnZone ==
    pc = "done" =>
        \A i \in 1..Len(resources) :
            resources[i].type = "Route 53 Record" =>
                LET rec == SelectSeq(edges, LAMBDA e :
                               e.label = "Record" /\ e.target = resources[i].id)
                IN  /\ Len(rec) <= 1
                    /\ \A k \in 1..Len(rec) :
                          /\ \E j \in 1..Len(resources) :
                                /\ resources[j].type = "Route 53 Hosted Zone"
                                /\ resources[j].id = rec[k].source
                                /\ StartsWith(resources[i].id, resources[j].id)
                          /\ rec[k].source = ListedFrom(resources[i])

\* The labels of the edges of the same-region rules.
SameRegionLabels ==
    {"Internet Access", "NAT Access", "Service Registration", "Trigger", "Integration"}

\* C19: every edge of the same-region rules (Internet Gateway to load
\* balancer, NAT Gateway to load balancer, Internet Gateway to NAT Gateway,
\* ECS Service to Target Group, EventBridge Rule to Lambda, API Gateway to
\* Lambda) links two supplied resources whose region fields are equal.
C19_SameRegionEdges ==
    \A k \in 1..Len(edges) :
        edges[k].label \in SameRegionLabels =>
            \E i, j \in 1..Len(resources) :
                /\ resources[i].id = edges[k].source
                /\ resources[j].id = edges[k].target
                /\ resources[i].region = resources[j].region

C19_Witness ==
    /\ pc = "done"
    /\ \E k \in 1..Len(edges) :
          /\ edges[k].label = "NAT Access"
          /\ edges[k].source = "nat@us-east-1"
          /\ edges[k].target = "alb@us-east-1"
    /\ \E i \in 1..Len(resources) : resources[i].id = "alb@eu-west-1"
    /\ Len(edges) = 1

\* Resources i and j are in one service group of the layout: the same
\* service type and, in the regional layout, the same region.
SameGroup(i, j) ==
    /\ resources[i].serviceType = resources[j].serviceType
    /\ layoutSettings.hierarchyType = "regional" => resources[i].region = resources[j].region

\* C20: in the regional and grouped layouts the resource at index k of a
\* service group of n resources is in column k mod ceil(sqrt(n)) and row
\* floor(k / ceil(sqrt(n))) of the group's grid, so no two resources of a
\* group share a position and the rows are no more than the columns; the
\* grid of a later service group of the same row of groups starts to the
\* right of every node of an earlier one.
C20_GroupGrid ==
    (variant = "Flow" /\ layoutSettings.hierarchyType \in {"regional", "grouped"}
     /\ pc # "input") =>
        /\ pc = "nodes"
        /\ \A i \in 1..Len(resources) :
              LET group == {j \in 1..Len(resources) : SameGroup(i, j)}
                  first == CHOOSE j \in group : \A l \in group : j <= l
                  n == Cardinality(group)
                  k == Cardinality({j \in group : j < i})
                  groupWidth == CeilSqrt(n)
                  p == nodes[NodeIndex(resources[i].id)].position
                  p0 == nodes[NodeIndex(resources[first].id)].position
              IN  /\ p.x - p0.x = (k % groupWidth) * (NodeWidth + layoutSettings.horizontalSpacing)
                  /\ p.y - p0.y = (k \div groupWidth) * layoutSettings.verticalSpacing
                  /\ (n + groupWidth - 1) \div groupWidth <= groupWidth
                  /\ \A j \in group \ {i} :
                        nodes[NodeIndex(resources[j].id)].position # p
                  /\ \A j \in 1..Len(resources) :
                        (~SameGroup(i, j) /\ resources[i].region = resources[j].region
                         /\ first < j /\ \A l \in 1..j : SameGroup(l, j) => first < l)
                        => p.x + NodeWidth <= nodes[NodeIndex(resources[j].id)].position.x


-----------------------------------------------------------------------------
(* Properties of the export ref chain (checked under SpecChain and        *)
(* SpecChainLive).                                                         *)

\* What an export of the given kind needs below the wrapper: the loader's
\* mapRef, ResourceMap's flowRef, and Flow's ReactFlow instance (draw.io) or
\* flow element (PNG).
ChainAvailable(c, kind) ==
    /\ c.loaderHandle > 0
    /\ c.mapRef
    /\ c.flowHandle
    /\ IF kind = "exportToDrawio" THEN c.reactFlowInstance ELSE c.flowElement

\* C21: an export call made through the wrapper's handle goes beyond the
\* wrapper only if the handle was created with isMounted, isLoaded and
\* hasExportMethods all true; with any other handle the call exports nothing
\* and logs exactly one error; with a forwarding handle and the inner ref,
\* the ReactFlow instance or the flow element unavailable the call returns
\* without exporting; no call throws, and a call exports only with a
\* forwarding handle and every level available.
C21_ExportForwardedOnlyWhenReady ==
    [][chain'.calls # chain.calls =>
        LET l == chain'.last
            forwarding == /\ chain.handle.isMounted
                          /\ chain.handle.isLoaded
                          /\ chain.handle.hasExportMethods
            available == ChainAvailable(chain, l.kind)
        IN  /\ ~l.threw
            /\ l.reached # "wrapper" => forwarding
            /\ ~forwarding => /\ ~l.exported
                              /\ l.errors = 1
                              /\ chain'.exports = chain.exports
            /\ forwarding /\ ~available => /\ ~l.exported
                                           /\ chain'.exports = chain.exports
            /\ l.exported <=> forwarding /\ available
            /\ l.exported => chain'.exports = chain.exports + 1]_vars

\* C21 witness: a call through a forwarding handle was stopped by the
\* loader's guard (mapRef.current is null), after an earlier call through the
\* stub handle or another stopped call.
C21_Witness ==
    /\ chain.calls >= 2
    /\ chain.last.ready
    /\ chain.last.reached = "loader"
    /\ chain.last.errors = 1
    /\ ~chain.last.exported

\* Once ReactFlow has initialised and onLoad has gone up through the loader
\* and the wrapper, the wrapper's handle eventually is the forwarding one.
HandleEventuallyForwards == chain.initFired ~> IsReady(chain.handle)

\* C22: once the wrapper is mounted and the ReactFlow map has initialised,
\* eventually the wrapper's handle is the forwarding one and an export call
\* of either kind made through it reaches Flow's export.
C22_ChainEventuallyUsable ==
    chain.initFired ~>
        /\ IsReady(chain.handle)
        /\ \A kind \in ExportKinds : /\ Export(chain, kind).reached = "flow"
                                     /\ Export(chain, kind).exported

-----------------------------------------------------------------------------
(* Properties of POST /api/report (checked under SpecStore).               *)

\* C23: when the submitted report has no email the returned relatedEmails
\* is empty whatever is stored, and every address that is returned is the
\* non-empty email of a stored report other than the one just created.
C23_EmailsOnlyToReportersWithEmail ==
    store.response.status = 200 =>
        /\ store.report.email = "" => store.response.relatedEmails = <<>>
        /\ \A i \in DOMAIN store.response.relatedEmails :
              /\ store.response.relatedEmails[i] # ""
              /\ \E j \in DOMAIN store.reports :
                    /\ store.reports[j].id # store.newId
                    /\ store.reports[j].email = store.response.relatedEmails[i]

\* C23 witness: a report without an email was answered with an empty list
\* although a similar stored report of somebody else has an email.
C23_Witness ==
    /\ store.response.status = 200
    /\ store.report.email = ""
    /\ store.response.similarReports > 0
    /\ store.response.relatedEmails = <<>>
    /\ \E j \in DOMAIN store.reports :
          /\ store.reports[j].id # store.newId
          /\ store.reports[j].email # ""
          /\ RegexMatches(store.report.company, store.reports[j].company)
          /\ DepartmentMatches(store.report, store.reports[j])

-----------------------------------------------------------------------------
(* Properties of the scan's concurrency and termination (checked under     *)
(* SpecScan and SpecScanLive).                                             *)

\* The services a ListServices statement starts DescribeServices calls for,
\* in the order of the response's serviceArns.
ServicesInOrder(starts) ==
    IF starts = {} THEN <<>>
    ELSE LET rg == (CHOOSE c \in starts : TRUE).resource.region
             ids == Items("svc", rg)
         IN  SelectSeq([k \in 1..Len(ids) |-> ServiceResource(ids[k], rg)],
                       LAMBDA r : \E c \in starts : c.resource = r)

\* The resources of a scan in which every call returns and the
\* DescribeServices calls of a cluster complete in the order they were
\* started in.
RECURSIVE InOrderFrom(_, _, _)
InOrderFrom(plan, i, found) ==
    IF i > Len(plan) THEN found
    ELSE LET st == plan[i]
             services == IF st.kind = "all" THEN ServicesInOrder(plan[i - 1].starts) ELSE <<>>
         IN  InOrderFrom(plan, i + 1, found \o services \o Pushed(st, found \o services))

\* C25: the resource sequence of a scan depends on the API responses only:
\* a scan in which every call has returned its response ends with the
\* sequence of the scan whose DescribeServices calls complete in the order
\* they were started in, whatever order they completed in.
C25_ScanOrderFromResponses ==
    (pc = "done" /\ failures = 0 /\ inflight = {}) =>
        resources = InOrderFrom(Plan(page), 1, <<>>)

\* C26: at most one scan is in progress at any time.  A scan is started only
\* while loading is false, and it clears the resources; as long as it runs
\* the resources stay cleared; loading goes back to false only at the end of
\* the running scan, which sets the resources to that scan's list (or
\* leaves them cleared when it sets error); after
\* that the resources change only by a new scan or by a late push of a call
\* of the same scan to the same array.
C26_OneScanAtATime ==
    [][/\ scans' # scans => /\ ~loading /\ pc # "scanning"
                            /\ loading' /\ pc' = "scanning"
                            /\ scans' = scans + 1
                            /\ resources' = <<>>
       /\ loading <=> pc = "scanning"
       /\ loading /\ loading' => /\ scans' = scans
                                 /\ resources = <<>> /\ resources' = <<>>
       /\ loading /\ ~loading' => /\ scans' = scans
                                  /\ \/ ~error' /\ resources' = discoveredResources
                                     \/ error' /\ resources' = <<>>
       /\ ~loading /\ ~loading' /\ resources' # resources =>
             /\ scans' = scans
             /\ \E c \in inflight : /\ resources' = Append(resources, c.resource)
                                    /\ discoveredResources' = resources']_vars

\* C26 witness: a second scan was started after the first one had ended and
\* has ended too, its resources shown.
C26_Witness ==
    /\ scans = 2
    /\ ~loading
    /\ pc = "done"
    /\ resources # <<>>

\* C27: every scan that is started eventually ends with loading = false,
\* whether its calls return or throw; error is set only by an exception that
\* escaped the inner try blocks, and then the resources are still empty.
C27_ScanTerminates ==
    /\ loading ~> ~loading
    /\ [](error => /\ pc = "failed"
                   /\ ~loading
                   /\ resources = <<>>)

\* C27 witness: a scan in which a call threw inside its try block and a later
\* exception escaped has ended: error is set, loading is false, and the
\* resources found before are not shown.
C27_Witness ==
    /\ pc = "failed"
    /\ error
    /\ ~loading
    /\ log.failedBlocks # {}
    /\ discoveredResources # <<>>
    /\ resources = <<>>

-----------------------------------------------------------------------------
(* Properties of the GIF recorder (checked under SpecGif).                 *)

\* C28: during one recording at most 50 frames are added to the encoder and
\* render() is invoked once: never more than once, and once the 50th frame
\* has been added.
C28_FiftyFramesOneRender ==
    /\ gif.frames <= FrameLimit
    /\ gif.renders <= 1
    /\ gif.frames = FrameLimit => gif.renders = 1

-----------------------------------------------------------------------------
(* Properties of the edge selection (checked under SpecLife).              *)

\* The selection the claim gives after a click on the edge `id`.
Toggled(selected, id) == IF selected = <<id>> THEN <<>> ELSE <<id>>

\* C29: in FlowWithDownload the selection is one slot, empty or one id; a
\* click on any edge of the graph is possible and leaves the slot empty if
\* the edge's id was the selection and holding that id if not; and the
\* slot gets an id in no other way (a new instance of the component starts
\* with the slot empty).
C29_EdgeSelectionToggles ==
    /\ [](variant = "FlowWithDownload" /\ pc = "mounted" =>
            /\ Len(selectedEdge) <= 1
            /\ \A k \in 1..Len(edges) :
                  ENABLED (OnEdgeClick
                           /\ selectedEdge' = Toggled(selectedEdge, edges[k].id)))
    /\ [][variant = "FlowWithDownload" /\ selectedEdge' # selectedEdge
                /\ selectedEdge' # <<>> =>
            \E k \in 1..Len(edges) : selectedEdge' = Toggled(selectedEdge, edges[k].id)]_vars

\* C29 witness: an edge of a graph with two edges that have different ids
\* is selected, by a click.
C29_Witness ==
    /\ variant = "FlowWithDownload"
    /\ pc = "mounted"
    /\ \E j, k \in 1..Len(edges) : /\ edges[j].id # edges[k].id
                                   /\ selectedEdge = <<edges[k].id>>
====
